---- MODULE Spec2Model ----
(***************************************************************************)
(* Shrike Guard (TypeScript SDK): the interception core.                   *)
(*                                                                         *)
(*   - the sanitizer (src/src/sanitizer.ts), a pure function on the parsed *)
(*     JSON body of the scan service;                                      *)
(*   - the scan step of the three provider wrappers and the generation     *)
(*     entry points that wrap it (src/src/openai/client.ts,                *)
(*     src/src/anthropic/client.ts, src/src/gemini/client.ts);             *)
(*   - the low-level ScanClient (src/src/scanner.ts).                      *)
(*                                                                         *)
(* JavaScript values are records [t, s, n]: t is the typeof tag, s the     *)
(* string payload, n the numeric payload.  Fractions (confidence scores)   *)
(* are carried in hundredths, so 0.9 is 90 and 1.0 is 100.                 *)
(***************************************************************************)
EXTENDS Integers, Sequences, FiniteSets, TLC

VARIABLES
  wrapper,   \* the instance under test: its kind and the configuration its constructor stored
  calls,     \* per call slot: the call's position, request, timer, scan result and outcome
  sanRaw,    \* the raw backend payload handed to the sanitizer
  sanOut     \* what sanitizeScanResponse made of sanRaw (or that it threw)

vars == <<wrapper, calls, sanRaw, sanOut>>

(***************************************************************************)
(* JavaScript values                                                       *)
(***************************************************************************)
Undefined == [t |-> "undefined", s |-> "", n |-> 0]
Null      == [t |-> "null", s |-> "", n |-> 0]
Str(x)    == [t |-> "string", s |-> x, n |-> 0]
Num(h)    == [t |-> "number", s |-> "", n |-> h]
Bool(b)   == [t |-> "boolean", s |-> "", n |-> IF b THEN 1 ELSE 0]
\* An object or a function the model does not look into; s is what String() makes of it.
Obj(str)  == [t |-> "object", s |-> str, n |-> 0]
Fn(str)   == [t |-> "function", s |-> str, n |-> 0]

\* ToBoolean: what `!x` and `x || y` test.
Truthy(v) ==
  CASE v.t = "undefined" -> FALSE
    [] v.t = "null"      -> FALSE
    [] v.t = "string"    -> v.s # ""
    [] v.t = "number"    -> v.n # 0
    [] v.t = "boolean"   -> v.n = 1
    [] OTHER             -> TRUE

\* x || y
OrElse(x, y) == IF Truthy(x) THEN x ELSE y

\* Number to string: hundredths back to the decimal text JavaScript prints.
NumToString(h) ==
  LET a == IF h < 0 THEN -h ELSE h
      int == a \div 100
      frac == a % 100
      digits == IF frac = 0 THEN ""
                ELSE IF frac % 10 = 0 THEN "." \o ToString(frac \div 10)
                ELSE IF frac < 10 THEN ".0" \o ToString(frac)
                ELSE "." \o ToString(frac)
  IN (IF h < 0 THEN "-" ELSE "") \o ToString(int) \o digits

\* String(x) and `${x}`.
ToStr(v) ==
  CASE v.t = "undefined" -> "undefined"
    [] v.t = "null"      -> "null"
    [] v.t = "string"    -> v.s
    [] v.t = "number"    -> NumToString(v.n)
    [] v.t = "boolean"   -> IF v.n = 1 THEN "true" ELSE "false"
    [] OTHER             -> v.s

\* A function's outcome: a value, or an exception thrown.
Ok(v) == [thrown |-> FALSE, val |-> v]
Throw(name, message) == [thrown |-> TRUE, name |-> name, message |-> message]

(***************************************************************************)
(* Strings                                                                 *)
(***************************************************************************)
UpperToLower ==
  [ A |-> "a", B |-> "b", C |-> "c", D |-> "d", E |-> "e", F |-> "f", G |-> "g",
    H |-> "h", I |-> "i", J |-> "j", K |-> "k", L |-> "l", M |-> "m", N |-> "n",
    O |-> "o", P |-> "p", Q |-> "q", R |-> "r", S |-> "s", T |-> "t", U |-> "u",
    V |-> "v", W |-> "w", X |-> "x", Y |-> "y", Z |-> "z" ]

RECURSIVE toLowerCase(_)
toLowerCase(s) ==
  IF s = "" THEN ""
  ELSE (IF Head(s) \in DOMAIN UpperToLower THEN UpperToLower[Head(s)] ELSE Head(s))
       \o toLowerCase(Tail(s))

\* s.replace(/-/g, '_')
RECURSIVE replaceHyphens(_)
replaceHyphens(s) ==
  IF s = "" THEN ""
  ELSE (IF Head(s) = "-" THEN "_" ELSE Head(s)) \o replaceHyphens(Tail(s))

\* s.includes(sub)
includes(s, sub) ==
  \E i \in 1..(Len(s) - Len(sub) + 1) : SubSeq(s, i, i + Len(sub) - 1) = sub

WhiteSpace == {" ", "\t", "\n", "\r"}

RECURSIVE trimStart(_)
trimStart(s) ==
  IF s = "" THEN ""
  ELSE IF Head(s) \in WhiteSpace THEN trimStart(Tail(s)) ELSE s

RECURSIVE trimEnd(_)
trimEnd(s) ==
  IF s = "" THEN ""
  ELSE IF SubSeq(s, Len(s), Len(s)) \in WhiteSpace
       THEN trimEnd(SubSeq(s, 1, Len(s) - 1)) ELSE s

trim(s) == trimEnd(trimStart(s))

\* texts.join('\n')
RECURSIVE join(_)
join(texts) ==
  IF texts = <<>> THEN ""
  ELSE IF Len(texts) = 1 THEN texts[1]
  ELSE texts[1] \o "\n" \o join(Tail(texts))

(***************************************************************************)
(* The sanitizer's tables                                                  *)
(***************************************************************************)
\* A synonym table without the entries that map each public value to itself.
SynonymsOnly ==
  [ injection |-> "prompt_injection",
    sqli |-> "sql_injection",
    pii |-> "pii_exposure",
    timeout |-> "scan_error" ]

THREAT_TYPE_MAP ==
  [ prompt_injection |-> "prompt_injection",
    injection |-> "prompt_injection",
    inject |-> "prompt_injection",
    instruction_override |-> "prompt_injection",
    role_hijacking |-> "prompt_injection",
    context_manipulation |-> "prompt_injection",
    token_manipulation |-> "prompt_injection",
    indirect_injection |-> "prompt_injection",
    context_poisoning |-> "prompt_injection",
    function_injection |-> "prompt_injection",
    memory_injection |-> "prompt_injection",
    topic_mismatch |-> "prompt_injection",
    jailbreak |-> "jailbreak",
    jailbreak_attempt |-> "jailbreak",
    safety_bypass |-> "jailbreak",
    roleplay |-> "jailbreak",
    hypothetical |-> "jailbreak",
    completion_baiting |-> "jailbreak",
    override |-> "jailbreak",
    manipulate |-> "jailbreak",
    tonality_drift_profanity |-> "jailbreak",
    tonality_drift_casual |-> "jailbreak",
    tonality_drift_hostile |-> "jailbreak",
    system_prompt_leak |-> "system_prompt_leak",
    system_prompt_extraction |-> "system_prompt_leak",
    data_exfiltration |-> "data_exfiltration",
    exfiltration |-> "data_exfiltration",
    exfiltrate |-> "data_exfiltration",
    extract |-> "data_exfiltration",
    data_leak |-> "data_exfiltration",
    information_disclosure |-> "data_exfiltration",
    credential_extraction |-> "data_exfiltration",
    sql_injection |-> "sql_injection",
    sqli |-> "sql_injection",
    tautology |-> "sql_injection",
    tautology_or |-> "sql_injection",
    tautology_and |-> "sql_injection",
    union_injection |-> "sql_injection",
    stacked_query |-> "sql_injection",
    path_traversal |-> "path_traversal",
    directory_traversal |-> "path_traversal",
    path_violation |-> "path_traversal",
    file_access |-> "path_traversal",
    sensitive_path |-> "path_traversal",
    sensitive_extension |-> "path_traversal",
    blocked_extension |-> "path_traversal",
    secrets_exposure |-> "secrets_exposure",
    secrets |-> "secrets_exposure",
    api_key |-> "secrets_exposure",
    credential |-> "secrets_exposure",
    sensitive_file |-> "secrets_exposure",
    content_violation |-> "secrets_exposure",
    sensitive_content |-> "secrets_exposure",
    secret_key |-> "secrets_exposure",
    aws_key |-> "secrets_exposure",
    private_key |-> "secrets_exposure",
    pii_exposure |-> "pii_exposure",
    pii |-> "pii_exposure",
    pii_leak |-> "pii_exposure",
    personal_data |-> "pii_exposure",
    pii_in_search |-> "pii_exposure",
    pii_extraction |-> "pii_exposure",
    ssn |-> "pii_exposure",
    credit_card |-> "pii_exposure",
    email_exposure |-> "pii_exposure",
    phone_number |-> "pii_exposure",
    unexpected_pii_leakage |-> "pii_exposure",
    blocked_domain |-> "blocked_domain",
    suspicious_tld |-> "blocked_domain",
    suspicious_domain |-> "blocked_domain",
    malicious_url |-> "blocked_domain",
    toxicity |-> "toxicity",
    harmful_content |-> "toxicity",
    malicious_content |-> "malicious_code",
    malicious_code |-> "malicious_code",
    reverse_shell |-> "malicious_code",
    web_shell |-> "malicious_code",
    fork_bomb |-> "malicious_code",
    crypto_miner |-> "malicious_code",
    persistence |-> "malicious_code",
    shell_injection |-> "malicious_code",
    harmful_intent |-> "harmful_intent",
    dangerous_request |-> "harmful_intent",
    social_engineering |-> "social_engineering",
    emotional |-> "social_engineering",
    authority_claim |-> "social_engineering",
    privilege_escalation |-> "privilege_escalation",
    destructive_operation |-> "destructive_operation",
    scan_error |-> "scan_error",
    size_limit_exceeded |-> "size_limit_exceeded",
    size_limit |-> "size_limit_exceeded",
    timeout |-> "scan_error" ]

THREAT_GUIDANCE ==
  [ prompt_injection |-> "This prompt contains patterns consistent with instruction override attempts.",
    jailbreak |-> "This prompt attempts to bypass safety guidelines. The request has been blocked.",
    system_prompt_leak |-> "The response contains system prompt disclosure. The response has been blocked.",
    data_exfiltration |-> "This prompt may attempt to extract sensitive information.",
    sql_injection |-> "This query contains potentially dangerous SQL patterns.",
    path_traversal |-> "This file path attempts to access directories outside the allowed scope.",
    secrets_exposure |-> "This content contains patterns matching API keys, tokens, or credentials.",
    pii_exposure |-> "This content contains personally identifiable information.",
    blocked_domain |-> "This web search targets a restricted domain.",
    toxicity |-> "This content contains potentially harmful or inappropriate language.",
    malicious_code |-> "This content contains patterns associated with malicious code.",
    harmful_intent |-> "This request contains content associated with harmful intent.",
    social_engineering |-> "This prompt contains social engineering patterns.",
    privilege_escalation |-> "This query attempts to escalate privileges or gain unauthorized access.",
    destructive_operation |-> "This query contains destructive operations. Review carefully.",
    scan_error |-> "The security scan could not be completed. Blocked as precaution.",
    size_limit_exceeded |-> "The content exceeds the maximum allowed size.",
    unknown |-> "A security concern was detected. Please review the content." ]

THREAT_SEVERITY ==
  [ prompt_injection |-> "high",
    jailbreak |-> "high",
    system_prompt_leak |-> "high",
    data_exfiltration |-> "high",
    sql_injection |-> "critical",
    path_traversal |-> "high",
    secrets_exposure |-> "critical",
    pii_exposure |-> "high",
    blocked_domain |-> "medium",
    toxicity |-> "medium",
    malicious_code |-> "critical",
    harmful_intent |-> "high",
    social_engineering |-> "medium",
    privilege_escalation |-> "critical",
    destructive_operation |-> "critical",
    scan_error |-> "medium",
    size_limit_exceeded |-> "low",
    unknown |-> "medium" ]

\* What every object literal inherits from Object.prototype: TABLE[key] finds these
\* when key is not an own key of TABLE.
ObjectPrototype ==
  [ constructor          |-> Fn("function Object() { [native code] }"),
    hasOwnProperty       |-> Fn("function hasOwnProperty() { [native code] }"),
    isPrototypeOf        |-> Fn("function isPrototypeOf() { [native code] }"),
    propertyIsEnumerable |-> Fn("function propertyIsEnumerable() { [native code] }"),
    toLocaleString       |-> Fn("function toLocaleString() { [native code] }"),
    toString             |-> Fn("function toString() { [native code] }"),
    valueOf              |-> Fn("function valueOf() { [native code] }") ]
  @@ ("__proto__" :> Obj("[object Object]"))

\* TABLE[key] on an object literal: the own property, else the inherited one, else undefined.
PropertyOf(table, key) ==
  IF key \in DOMAIN table THEN Str(table[key])
  ELSE IF key \in DOMAIN ObjectPrototype THEN ObjectPrototype[key]
  ELSE Undefined

(***************************************************************************)
(* The sanitizer                                                           *)
(***************************************************************************)
\* The backend's label passed on as it is.
normalizeThreatTypeRaw(rawType) == Ok(rawType)

normalizeThreatType(rawType) ==
  IF ~Truthy(rawType) THEN Ok(Str("unknown"))
  ELSE IF rawType.t # "string"
       THEN Throw("TypeError", "rawType.toLowerCase is not a function")
  ELSE LET normalized == replaceHyphens(toLowerCase(rawType.s))
       IN Ok(OrElse(PropertyOf(THREAT_TYPE_MAP, normalized), Str("unknown")))

validSeverities == {"critical", "high", "medium", "low"}

\* The backend's severity trusted as it is whenever it is given.
deriveSeverityTrusting(threatType, rawSeverity) ==
  IF Truthy(rawSeverity) THEN rawSeverity
  ELSE OrElse(PropertyOf(THREAT_SEVERITY, ToStr(threatType)), Str("medium"))

\* rawSeverity is a string or undefined (the caller's typeof test sees to it).
deriveSeverity(threatType, rawSeverity) ==
  IF Truthy(rawSeverity) /\ toLowerCase(rawSeverity.s) \in validSeverities
  THEN Str(toLowerCase(rawSeverity.s))
  ELSE OrElse(PropertyOf(THREAT_SEVERITY, ToStr(threatType)), Str("medium"))

\* The buckets with strict comparisons: the boundaries fall into the lower bucket.
bucketConfidenceStrict(score) ==
  IF score.t \in {"undefined", "null"} THEN Str("medium")
  ELSE IF score.n > 90 THEN Str("high")
  ELSE IF score.n > 70 THEN Str("medium")
  ELSE Str("low")

\* score is a number (in hundredths), undefined or null.
bucketConfidence(score) ==
  IF score.t \in {"undefined", "null"} THEN Str("medium")
  ELSE IF score.n >= 90 THEN Str("high")
  ELSE IF score.n >= 70 THEN Str("medium")
  ELSE Str("low")

\* The parsed JSON body of a scan response.  kind "null" is the JSON text null; an
\* absent field reads as undefined.  violations and internal stand for the fields the
\* sanitizer never reads.
RawBody(safe, reason, threatType, confidence, severity, violations, internal) ==
  [ kind |-> "object", safe |-> safe, reason |-> reason, threat_type |-> threatType,
    confidence |-> confidence, severity |-> severity,
    violations |-> violations, internal |-> internal ]

NullBody ==
  [ kind |-> "null", safe |-> Undefined, reason |-> Undefined, threat_type |-> Undefined,
    confidence |-> Undefined, severity |-> Undefined,
    violations |-> <<>>, internal |-> {} ]

\* The sanitizer with the safe branch copying the raw classification through.
sanitizeKeepsThreatFields(raw) ==
  IF raw.kind = "null"
  THEN Throw("TypeError", "Cannot read properties of null (reading 'safe')")
  ELSE
  LET safe == raw.safe # Bool(FALSE) IN
  IF safe
  THEN Ok([safe |-> TRUE, reason |-> OrElse(raw.reason, Str("")),
           threat_type |-> raw.threat_type, severity |-> raw.severity])
  ELSE
  LET threatType == normalizeThreatType(raw.threat_type) IN
  IF threatType.thrown THEN threatType
  ELSE
  LET confidence == bucketConfidence(
                      IF raw.confidence.t = "number" THEN raw.confidence ELSE Undefined)
      severity   == deriveSeverity(threatType.val,
                      IF raw.severity.t = "string" THEN raw.severity ELSE Undefined)
      guidance   == OrElse(PropertyOf(THREAT_GUIDANCE, ToStr(threatType.val)),
                           Str(THREAT_GUIDANCE["unknown"]))
  IN Ok([ safe        |-> FALSE,
          threat_type |-> threatType.val,
          severity    |-> severity,
          confidence  |-> confidence,
          reason      |-> OrElse(raw.reason, guidance),
          guidance    |-> guidance ])

\* The sanitizer copying the backend's violations into the unsafe verdict.
sanitizePassesViolations(raw) ==
  IF raw.kind = "null"
  THEN Throw("TypeError", "Cannot read properties of null (reading 'safe')")
  ELSE
  LET safe == raw.safe # Bool(FALSE) IN
  IF safe
  THEN Ok([safe |-> TRUE, reason |-> OrElse(raw.reason, Str(""))])
  ELSE
  LET threatType == normalizeThreatType(raw.threat_type) IN
  IF threatType.thrown THEN threatType
  ELSE
  LET confidence == bucketConfidence(
                      IF raw.confidence.t = "number" THEN raw.confidence ELSE Undefined)
      severity   == deriveSeverity(threatType.val,
                      IF raw.severity.t = "string" THEN raw.severity ELSE Undefined)
      guidance   == OrElse(PropertyOf(THREAT_GUIDANCE, ToStr(threatType.val)),
                           Str(THREAT_GUIDANCE["unknown"]))
  IN Ok([ safe        |-> FALSE,
          threat_type |-> threatType.val,
          severity    |-> severity,
          confidence  |-> confidence,
          reason      |-> OrElse(raw.reason, guidance),
          guidance    |-> guidance,
          violations  |-> raw.violations ])

\* The sanitizer copying the backend's reason as it is, given or not.
sanitizeRawReason(raw) ==
  IF raw.kind = "null"
  THEN Throw("TypeError", "Cannot read properties of null (reading 'safe')")
  ELSE
  LET safe == raw.safe # Bool(FALSE) IN
  IF safe
  THEN Ok([safe |-> TRUE, reason |-> OrElse(raw.reason, Str(""))])
  ELSE
  LET threatType == normalizeThreatType(raw.threat_type) IN
  IF threatType.thrown THEN threatType
  ELSE
  LET confidence == bucketConfidence(
                      IF raw.confidence.t = "number" THEN raw.confidence ELSE Undefined)
      severity   == deriveSeverity(threatType.val,
                      IF raw.severity.t = "string" THEN raw.severity ELSE Undefined)
      guidance   == OrElse(PropertyOf(THREAT_GUIDANCE, ToStr(threatType.val)),
                           Str(THREAT_GUIDANCE["unknown"]))
  IN Ok([ safe        |-> FALSE,
          threat_type |-> threatType.val,
          severity    |-> severity,
          confidence  |-> confidence,
          reason      |-> raw.reason,
          guidance    |-> guidance ])

sanitizeScanResponse(raw) ==
  IF raw.kind = "null"
  THEN Throw("TypeError", "Cannot read properties of null (reading 'safe')")
  ELSE
  LET safe == raw.safe # Bool(FALSE) IN
  IF safe
  THEN Ok([safe |-> TRUE, reason |-> OrElse(raw.reason, Str(""))])
  ELSE
  LET threatType == normalizeThreatType(raw.threat_type) IN
  IF threatType.thrown THEN threatType
  ELSE
  LET confidence == bucketConfidence(
                      IF raw.confidence.t = "number" THEN raw.confidence ELSE Undefined)
      severity   == deriveSeverity(threatType.val,
                      IF raw.severity.t = "string" THEN raw.severity ELSE Undefined)
      guidance   == OrElse(PropertyOf(THREAT_GUIDANCE, ToStr(threatType.val)),
                           Str(THREAT_GUIDANCE["unknown"]))
  IN Ok([ safe        |-> FALSE,
          threat_type |-> threatType.val,
          severity    |-> severity,
          confidence  |-> confidence,
          reason      |-> OrElse(raw.reason, guidance),
          guidance    |-> guidance ])

\* A field of a ScanResult, undefined when the object has no such key.
Field(result, key) == IF key \in DOMAIN result THEN result[key] ELSE Undefined

(***************************************************************************)
(* Configuration                                                           *)
(***************************************************************************)
OPEN   == "open"
CLOSED == "closed"
DEFAULT_FAIL_MODE == OPEN
DEFAULT_SCAN_TIMEOUT == 10000
DEFAULT_ENDPOINT == "https://api.shrikesecurity.com/agent"
MAX_CONTENT_SIZE == 100 * 1024

\* The call slots: calls that may be in flight together on the one instance.
MaxCalls == 2
CallIds == 1..MaxCalls

Kinds == {"openai", "anthropic", "gemini", "scanclient"}

\* The failMode option a caller passes: absent, or one of the two modes.
FailModeOptions == {Undefined, Str(OPEN), Str(CLOSED)}

\* this._failMode as the three wrapper constructors compute it.
NormalizeFailMode(option) ==
  IF option.t = "string" THEN option ELSE OrElse(option, Str(DEFAULT_FAIL_MODE))

\* (options.shrikeEndpoint || DEFAULT_ENDPOINT).replace(/\/$/, '')
stripTrailingSlash(s) ==
  IF s # "" /\ SubSeq(s, Len(s), Len(s)) = "/" THEN SubSeq(s, 1, Len(s) - 1) ELSE s

\* The options a caller constructs an instance with: the fail mode, the Shrike key, the
\* endpoint and the timeout in milliseconds, each absent (undefined) or given.
Options(failMode, shrikeApiKey, shrikeEndpoint, scanTimeout) ==
  [ failMode |-> failMode, shrikeApiKey |-> shrikeApiKey,
    shrikeEndpoint |-> shrikeEndpoint, scanTimeout |-> scanTimeout ]

\* The fail mode is left out, open, closed, or (from JavaScript or through a cast:
\* the declared type admits the two modes only) the upper-case spelling of open; the
\* options with fail mode closed leave the key out and give an endpoint and a timeout
\* of their own; one set of options gives an endpoint that is no URL.
ConstructorOptions ==
  { Options(Undefined, Str("shrike-key"), Undefined, Undefined),
    Options(Str(OPEN), Str("shrike-key"), Undefined, Undefined),
    Options(Str(CLOSED), Undefined, Str("https://scan.example/"), Num(5000 * 100)),
    Options(Str("OPEN"), Str("shrike-key"), Undefined, Undefined),
    Options(Undefined, Str("shrike-key"), Str("not a url"), Undefined) }

\* The instance a constructor leaves behind; no constructor tests its options.
\* ScanClient has no fail mode and stores options.apiKey as it is.
NewInstance(kind, options) ==
  LET endpoint == stripTrailingSlash(
                    ToStr(OrElse(options.shrikeEndpoint, Str(DEFAULT_ENDPOINT))))
      timeout == OrElse(options.scanTimeout, Num(DEFAULT_SCAN_TIMEOUT * 100))
  IN IF kind = "scanclient"
     THEN [kind |-> kind, endpoint |-> endpoint, apiKey |-> options.shrikeApiKey,
           timeout |-> timeout]
     ELSE [kind |-> kind, endpoint |-> endpoint,
           apiKey |-> OrElse(options.shrikeApiKey, Str("")), timeout |-> timeout,
           failMode |-> NormalizeFailMode(options.failMode)]

\* Whether fetch can make a request of the endpoint: new URL(endpoint + path) parses.
ValidUrl(endpoint) ==
  \/ Len(endpoint) > 7 /\ SubSeq(endpoint, 1, 7) = "http://"
  \/ Len(endpoint) > 8 /\ SubSeq(endpoint, 1, 8) = "https://"

FailOpen(w) == w.failMode = Str(OPEN)

GenerationEntries(kind) ==
  CASE kind = "openai"    -> {"chat.completions.create"}
    [] kind = "anthropic" -> {"messages.create"}
    [] kind = "gemini"    -> {"generateContent", "generateContentStream",
                              "sendMessage", "sendMessageStream"}
    [] OTHER              -> {}

ScanEntries(kind) ==
  CASE kind = "openai"     -> {"scanSql", "scanFile"}
    [] kind = "scanclient" -> {"scan", "scanSql", "scanFile"}
    [] OTHER               -> {}

(***************************************************************************)
(* Requests                                                                *)
(***************************************************************************)
\* A chat message.  content.kind is "string", "array" (typed blocks) or "null"; a
\* block's absent text reads as "" (both are falsy).
StringContent(s) == [kind |-> "string", text |-> s, blocks |-> <<>>]
BlockContent(bs) == [kind |-> "array", text |-> "", blocks |-> bs]
Msg(role, content) == [role |-> role, content |-> content]
TextBlock(s) == [type |-> "text", text |-> s]
ImageBlock == [type |-> "image", text |-> ""]
\* A block of another type that has a text field all the same.
DocumentBlock(s) == [type |-> "document", text |-> s]

Hello == <<Msg("user", StringContent("Hello!"))>>
Dialogue ==
  << Msg("system", StringContent("Be brief")), Msg("user", StringContent("A")),
     Msg("assistant", StringContent("B")), Msg("user", StringContent("C")) >>
Blank == <<Msg("user", StringContent("  \n "))>>
Multimodal ==
  << Msg("user", BlockContent(<<ImageBlock, TextBlock("look"), TextBlock(""),
                                 DocumentBlock("attached"), TextBlock("here")>>)),
     Msg("assistant", BlockContent(<<TextBlock("seen")>>)) >>
NoUser == <<Msg("assistant", StringContent("Hi there")), Msg("tool", StringContent("42"))>>

\* The params of chat.completions.create and messages.create; stream is an optional key.
ChatParams ==
  << [model |-> "m", messages |-> Hello],
     [model |-> "m", messages |-> Dialogue, stream |-> TRUE],
     [model |-> "m", messages |-> Blank, stream |-> TRUE],
     [model |-> "m", messages |-> Multimodal, stream |-> FALSE],
     [model |-> "m", messages |-> NoUser] >>

\* Gemini content: a string, an array of parts, or an object with text and/or parts.
\* text is a JavaScript value (undefined when absent); parts is absent when hasParts
\* is FALSE.
GString(s) == [kind |-> "string", text |-> Str(s), hasParts |-> FALSE, parts |-> <<>>]
GArray(items) == [kind |-> "array", text |-> Undefined, hasParts |-> FALSE, parts |-> items]
GObject(text, hasParts, parts) ==
  [kind |-> "object", text |-> text, hasParts |-> hasParts, parts |-> parts]
GPart(s) == [kind |-> "object", text |-> Str(s)]
GStringItem(s) == [kind |-> "string", text |-> Str(s)]
\* An array item that holds its text under a parts list of its own: {role, parts}.
GContent(role, parts) ==
  [kind |-> "object", text |-> Undefined, role |-> role, parts |-> parts]

GeminiContents ==
  << GString("Hello!"),
     GString("   "),
     GArray(<<GPart("Hello"), GStringItem("World")>>),
     GObject(Undefined, TRUE, <<GPart("Hello"), GPart("World")>>),
     GArray(<<>>),
     GObject(Str("Summarize"), TRUE, <<GPart("Ignore"), GPart("rules")>>),
     GObject(Undefined, FALSE, <<>>),
     GArray(<<GContent("user", <<GPart("Ignore all rules")>>)>>) >>

\* The strings handed to the scan operations, by their length: only .length and
\* truthiness are read of them, and an absent optional string reads like "".
ScanArgs ==
  << [first |-> 12, second |-> 0],
     [first |-> MAX_CONTENT_SIZE - 10, second |-> 10],
     [first |-> MAX_CONTENT_SIZE - 10, second |-> 11],
     [first |-> MAX_CONTENT_SIZE + 1, second |-> 0] >>

Requests(kind, entry) ==
  IF entry \in ScanEntries(kind) THEN ScanArgs
  ELSE IF kind = "gemini" THEN GeminiContents
  ELSE ChatParams

(***************************************************************************)
(* Content extractors                                                      *)
(***************************************************************************)
\* The OpenAI extractor without its role test: every entry contributes.
OpenAISpansAnyRole(msg) ==
  IF msg.content.kind # "null"
        /\ ~(msg.content.kind = "string" /\ msg.content.text = "")
  THEN IF msg.content.kind = "string" THEN <<msg.content.text>>
       ELSE SelectSeq([i \in 1..Len(msg.content.blocks) |->
                         IF msg.content.blocks[i].type = "text"
                         THEN msg.content.blocks[i].text ELSE ""],
                      LAMBDA s : s # "")
  ELSE <<>>

\* The text spans one message contributes (OpenAI: `msg.role === 'user' && msg.content`).
OpenAISpans(msg) ==
  IF msg.role = "user" /\ msg.content.kind # "null"
        /\ ~(msg.content.kind = "string" /\ msg.content.text = "")
  THEN IF msg.content.kind = "string" THEN <<msg.content.text>>
       ELSE SelectSeq([i \in 1..Len(msg.content.blocks) |->
                         IF msg.content.blocks[i].type = "text"
                         THEN msg.content.blocks[i].text ELSE ""],
                      LAMBDA s : s # "")
  ELSE <<>>

\* The Anthropic extractor without its type test: every block with a text contributes.
AnthropicSpansAnyType(msg) ==
  IF msg.role = "user"
  THEN IF msg.content.kind = "string" THEN <<msg.content.text>>
       ELSE IF msg.content.kind = "array"
       THEN SelectSeq([i \in 1..Len(msg.content.blocks) |-> msg.content.blocks[i].text],
                      LAMBDA s : s # "")
       ELSE <<>>
  ELSE <<>>

\* Anthropic: `msg.role === 'user'`.
AnthropicSpans(msg) ==
  IF msg.role = "user"
  THEN IF msg.content.kind = "string" THEN <<msg.content.text>>
       ELSE IF msg.content.kind = "array"
       THEN SelectSeq([i \in 1..Len(msg.content.blocks) |->
                         IF msg.content.blocks[i].type = "text"
                         THEN msg.content.blocks[i].text ELSE ""],
                      LAMBDA s : s # "")
       ELSE <<>>
  ELSE <<>>

RECURSIVE Flatten(_)
Flatten(seqs) == IF seqs = <<>> THEN <<>> ELSE Head(seqs) \o Flatten(Tail(seqs))

OpenAIExtractUserContent(messages) ==
  join(Flatten([i \in 1..Len(messages) |-> OpenAISpans(messages[i])]))

AnthropicExtractUserContent(messages) ==
  join(Flatten([i \in 1..Len(messages) |-> AnthropicSpans(messages[i])]))

\* The array branch of _extractContent: strings, and objects with a truthy text.
GeminiArrayTexts(items) ==
  LET texts == [i \in 1..Len(items) |->
                  IF items[i].kind = "string" THEN items[i].text
                  ELSE IF Truthy(items[i].text) THEN items[i].text ELSE Undefined]
      kept == SelectSeq(texts, LAMBDA v : v.t # "undefined")
  IN join([i \in 1..Len(kept) |-> kept[i].s])

GeminiExtractContent(contents) ==
  IF contents.kind = "string" THEN contents.text.s
  ELSE IF contents.kind = "array" THEN GeminiArrayTexts(contents.parts)
  ELSE IF Truthy(contents.text) THEN ToStr(contents.text)
  ELSE IF contents.hasParts THEN GeminiArrayTexts(contents.parts)
  ELSE "[object Object]"

\* The text a generation call scans.
ExtractedText(kind, request) ==
  CASE kind = "openai"    -> OpenAIExtractUserContent(request.messages)
    [] kind = "anthropic" -> AnthropicExtractUserContent(request.messages)
    [] kind = "gemini"    -> GeminiExtractContent(request)

(***************************************************************************)
(* The scan service and the provider, as the calls see them                *)
(***************************************************************************)
\* HTTP status codes the scan service answers with.
Statuses == {200, 404, 500}
ResponseOk(status) == status >= 200 /\ status <= 299

InvalidJson ==
  [ kind |-> "invalid", safe |-> Undefined, reason |-> Undefined,
    threat_type |-> Undefined, confidence |-> Undefined, severity |-> Undefined,
    violations |-> <<>>, internal |-> {} ]

\* Bodies of 2xx responses.
Bodies ==
  << RawBody(Bool(TRUE), Undefined, Undefined, Undefined, Undefined, <<>>, {}),
     RawBody(Bool(FALSE), Str("SQL injection detected"), Str("tautology_or"), Num(97),
             Undefined, <<"v1", "v2">>, {"detected_by", "matched_pattern"}),
     RawBody(Bool(FALSE), Undefined, Str("PII"), Num(50), Str("LOW"), <<>>, {}),
     RawBody(Bool(FALSE), Str("blocked"), Num(4200), Str("0.5"), Num(300), <<>>, {}),
     RawBody(Undefined, Str("ok"), Str("jailbreak"), Num(99), Str("high"), <<>>,
             {"scan_stage"}),
     InvalidJson >>

\* What fetch rejects with when the transport fails, and when the signal aborts it.
\* The last is a connection the peer closed, as runtimes other than undici word it.
NetworkErrors ==
  { Throw("TypeError", "fetch failed"), Throw("Error", "Network error"),
    Throw("Error", "socket connection was aborted") }
AbortError == Throw("AbortError", "This operation was aborted")
\* What fetch rejects with, at once, when the URL does not parse.
InvalidUrlError == Throw("TypeError", "Failed to parse URL")
FetchErrors(w) == IF ValidUrl(w.endpoint) THEN NetworkErrors ELSE {InvalidUrlError}
JsonSyntaxError == Throw("SyntaxError", "Unexpected token < in JSON at position 0")

\* What the wrapped provider settles with.
ProviderSettlements ==
  { [ok |-> TRUE, value |-> "native response"], [ok |-> FALSE, value |-> "native error"] }

(***************************************************************************)
(* The scan step                                                           *)
(***************************************************************************)
EmptyContentVerdict(kind) ==
  [ safe |-> TRUE,
    reason |-> Str(IF kind = "gemini" THEN "No text content to scan"
                   ELSE "No user content to scan") ]

\* The non-2xx branch with the status left out of the reason.
RemoteScanNotOkNoStatus(w, status) ==
  IF FailOpen(w)
  THEN Ok([safe |-> TRUE, reason |-> Str("Scan API error")])
  ELSE Throw("ShrikeScanError", "Scan API returned error: " \o ToString(status))

\* `!response.ok` in _remoteScan: the verdict under fail-open, else the ShrikeScanError
\* thrown in the try block (which the catch block rethrows).
RemoteScanNotOk(w, status) ==
  IF FailOpen(w)
  THEN Ok([safe |-> TRUE, reason |-> Str("Scan API error: " \o ToString(status))])
  ELSE Throw("ShrikeScanError", "Scan API returned error: " \o ToString(status))

\* The catch block with the fail mode ignored: every failure becomes a safe verdict.
RemoteScanCatchFailsOpen(w, error) ==
  IF error.name = "ShrikeScanError" THEN error
  ELSE IF includes(error.message, "abort")
  THEN Ok([safe |-> TRUE, reason |-> Str("Scan timeout, failing open")])
  ELSE Ok([safe |-> TRUE, reason |-> Str("Scan error: " \o error.message)])

\* The catch block raising for a transport failure whatever the fail mode.
RemoteScanCatchAlwaysRaises(w, error) ==
  IF error.name = "ShrikeScanError" THEN error
  ELSE IF includes(error.message, "abort")
  THEN IF FailOpen(w)
       THEN Ok([safe |-> TRUE, reason |-> Str("Scan timeout, failing open")])
       ELSE Throw("ShrikeScanError", "Scan request timed out and fail_mode is 'closed'")
  ELSE Throw("ShrikeScanError", "Scan failed: " \o error.message)

\* The catch block of _remoteScan.
RemoteScanCatch(w, error) ==
  IF error.name = "ShrikeScanError" THEN error
  ELSE IF includes(error.message, "abort")
  THEN IF FailOpen(w)
       THEN Ok([safe |-> TRUE, reason |-> Str("Scan timeout, failing open")])
       ELSE Throw("ShrikeScanError", "Scan request timed out and fail_mode is 'closed'")
  ELSE IF FailOpen(w)
       THEN Ok([safe |-> TRUE, reason |-> Str("Scan error: " \o error.message)])
       ELSE Throw("ShrikeScanError", "Scan failed: " \o error.message)

\* ShrikeOpenAI.scanSql / scanFile: the same shape without the timeout branch; the
\* messages name the operation and embed `${error}`.
OpenAIScanLabel(entry) == IF entry = "scanSql" THEN "SQL scan" ELSE "File scan"

OpenAIScanNotOk(w, entry, status) ==
  IF FailOpen(w)
  THEN Ok([safe |-> TRUE, reason |-> Str("Scan API error: " \o ToString(status))])
  ELSE Throw("ShrikeScanError",
             OpenAIScanLabel(entry) \o " API returned error: " \o ToString(status))

OpenAIScanCatch(w, entry, error) ==
  IF error.name = "ShrikeScanError" THEN error
  ELSE IF FailOpen(w)
  THEN Ok([safe |-> TRUE,
           reason |-> Str("Scan error: " \o error.name \o ": " \o error.message)])
  ELSE Throw("ShrikeScanError",
             OpenAIScanLabel(entry) \o " failed: " \o error.name \o ": " \o error.message)

\* ScanClient: no catch block; a non-2xx answer throws a plain Error.
ClientScanLabel(entry) ==
  CASE entry = "scanSql" -> "SQL scan" [] entry = "scanFile" -> "File scan" [] OTHER -> "Scan"

ClientNotOk(entry, status) ==
  Throw("Error", ClientScanLabel(entry) \o " API returned error: " \o ToString(status))

\* The size ScanClient measures: scanSql reads the query alone.
ClientSize(entry, args) ==
  IF entry = "scanSql" THEN args.first ELSE args.first + args.second

\* Math.round(size / 1024)
RoundKB(size) == (2 * size + 1024) \div 2048

\* The verdict ScanClient synthesizes for oversized input.
SizeLimitVerdict(entry, args) ==
  [ safe |-> FALSE,
    reason |-> Str((CASE entry = "scanSql" -> "SQL query too large ("
                      [] entry = "scanFile" -> "File content too large ("
                      [] OTHER -> "Content too large (")
                   \o ToString(RoundKB(ClientSize(entry, args))) \o "KB > "
                   \o ToString(MAX_CONTENT_SIZE \div 1024) \o "KB limit)"),
    threat_type |-> Str("size_limit_exceeded"),
    confidence |-> Num(100),
    violations |-> <<"size_limit">> ]

\* How each scan operation settles a non-2xx answer and an exception.
OnNotOk(w, entry, status) ==
  IF w.kind = "scanclient" THEN ClientNotOk(entry, status)
  ELSE IF entry \in ScanEntries(w.kind)
  THEN LET r == OpenAIScanNotOk(w, entry, status)
       IN IF r.thrown THEN OpenAIScanCatch(w, entry, r) ELSE r
  ELSE LET r == RemoteScanNotOk(w, status)
       IN IF r.thrown THEN RemoteScanCatch(w, r) ELSE r

\* ScanClient converting an exception into a safe verdict the way a fail-open wrapper
\* does.
OnErrorClientFailsOpen(w, entry, error) ==
  IF w.kind = "scanclient"
  THEN Ok([safe |-> TRUE, reason |-> Str("Scan error: " \o error.message)])
  ELSE IF entry \in ScanEntries(w.kind) THEN OpenAIScanCatch(w, entry, error)
  ELSE RemoteScanCatch(w, error)

OnError(w, entry, error) ==
  IF w.kind = "scanclient" THEN error
  ELSE IF entry \in ScanEntries(w.kind) THEN OpenAIScanCatch(w, entry, error)
  ELSE RemoteScanCatch(w, error)

\* `return sanitizeScanResponse(await response.json())` inside the try block.
OnBody(w, entry, body) ==
  LET r == IF body.kind = "invalid" THEN JsonSyntaxError ELSE sanitizeScanResponse(body)
  IN IF r.thrown THEN OnError(w, entry, r) ELSE r

(***************************************************************************)
(* A call: from its invocation to the value or error its promise settles   *)
(* with                                                                    *)
(***************************************************************************)
Idle == [pc |-> "idle"]

Put(call, key, val) == (key :> val) @@ call

\* new ShrikeBlockedError(message, threat_type, confidence, violations || [])
ShrikeBlockedError(message, threatType, confidence, violations) ==
  [ name |-> "ShrikeBlockedError", message |-> message, threatType |-> threatType,
    confidence |-> confidence, violations |-> violations,
    details |-> [threat_type |-> threatType, confidence |-> confidence,
                 violations |-> violations] ]

BlockedError(kind, scanResult) ==
  ShrikeBlockedError(
    IF kind = "gemini"
    THEN ToStr(OrElse(Field(scanResult, "reason"), Str("Request blocked by Shrike")))
    ELSE "Request blocked: "
         \o ToStr(OrElse(Field(scanResult, "reason"), Str("Security threat detected"))),
    Field(scanResult, "threat_type"),
    Field(scanResult, "confidence"),
    IF "violations" \in DOMAIN scanResult THEN scanResult.violations ELSE <<>>)

\* Every wrapper forcing stream: false the way messages.create does.
ProviderCallNonStreaming(kind, entry, request) ==
  CASE kind = "openai"    -> [method |-> "chat.completions.create",
                              arg |-> Put(request, "stream", FALSE)]
    [] kind = "anthropic" -> [method |-> "messages.create",
                              arg |-> Put(request, "stream", FALSE)]
    [] kind = "gemini"    -> [method |-> entry, arg |-> request]

\* The invocation of the wrapped provider: the method and the argument it is given.
ProviderCall(kind, entry, request) ==
  CASE kind = "openai"    -> [method |-> "chat.completions.create", arg |-> request]
    [] kind = "anthropic" -> [method |-> "messages.create",
                              arg |-> Put(request, "stream", FALSE)]
    [] kind = "gemini"    -> [method |-> entry, arg |-> request]

\* Settle without the block-if-unsafe test: every verdict is forwarded.
SettleForwardsUnsafe(w, call, scan) ==
  LET c1 == [call EXCEPT !.timer = IF @ = "armed" THEN "cleared" ELSE @]
      c2 == Put(c1, "scan", scan)
  IN IF call.entry \in ScanEntries(w.kind)
     THEN IF scan.thrown
          THEN Put([c2 EXCEPT !.pc = "done"], "raised", scan)
          ELSE Put([c2 EXCEPT !.pc = "done"], "verdict", scan.val)
     ELSE IF scan.thrown
          THEN Put([c2 EXCEPT !.pc = "done"], "raised", scan)
     ELSE [c2 EXCEPT !.pc = "provider",
                     !.provided = Append(@, ProviderCall(w.kind, call.entry, call.request))]

\* Settle with one retry: a scan request that failed is issued a second time.
SettleRetriesOnce(w, call, scan) ==
  LET c1 == [call EXCEPT !.timer = IF @ = "armed" THEN "cleared" ELSE @]
      c2 == Put(c1, "scan", scan)
  IN IF "cause" \in DOMAIN call /\ call.cause # "body" /\ call.fetches < 2
     THEN [call EXCEPT !.pc = "fetch", !.timer = "armed", !.aborted = FALSE,
                       !.fetches = @ + 1]
     ELSE IF call.entry \in ScanEntries(w.kind)
     THEN IF scan.thrown
          THEN Put([c2 EXCEPT !.pc = "done"], "raised", scan)
          ELSE Put([c2 EXCEPT !.pc = "done"], "verdict", scan.val)
     ELSE IF scan.thrown
          THEN Put([c2 EXCEPT !.pc = "done"], "raised", scan)
     ELSE IF ~scan.val.safe
          THEN Put([c2 EXCEPT !.pc = "done"], "raised", BlockedError(w.kind, scan.val))
     ELSE [c2 EXCEPT !.pc = "provider",
                     !.provided = Append(@, ProviderCall(w.kind, call.entry, call.request))]

\* Settle without the finally block: the timer is left as it is.
SettleLeavesTimer(w, call, scan) ==
  LET c2 == Put(call, "scan", scan)
  IN IF call.entry \in ScanEntries(w.kind)
     THEN IF scan.thrown
          THEN Put([c2 EXCEPT !.pc = "done"], "raised", scan)
          ELSE Put([c2 EXCEPT !.pc = "done"], "verdict", scan.val)
     ELSE IF scan.thrown
          THEN Put([c2 EXCEPT !.pc = "done"], "raised", scan)
     ELSE IF ~scan.val.safe
          THEN Put([c2 EXCEPT !.pc = "done"], "raised", BlockedError(w.kind, scan.val))
     ELSE [c2 EXCEPT !.pc = "provider",
                     !.provided = Append(@, ProviderCall(w.kind, call.entry, call.request))]

\* The rest of a call once its scan has settled with `scan` (a verdict or an
\* exception): clearTimeout in the finally block, then, in a generation entry point,
\* the block-or-forward decision.
Settle(w, call, scan) ==
  LET c1 == [call EXCEPT !.timer = IF @ = "armed" THEN "cleared" ELSE @]
      c2 == Put(c1, "scan", scan)
  IN IF call.entry \in ScanEntries(w.kind)
     THEN IF scan.thrown
          THEN Put([c2 EXCEPT !.pc = "done"], "raised", scan)
          ELSE Put([c2 EXCEPT !.pc = "done"], "verdict", scan.val)
     ELSE IF scan.thrown
          THEN Put([c2 EXCEPT !.pc = "done"], "raised", scan)
     ELSE IF ~scan.val.safe
          THEN Put([c2 EXCEPT !.pc = "done"], "raised", BlockedError(w.kind, scan.val))
     ELSE [c2 EXCEPT !.pc = "provider",
                     !.provided = Append(@, ProviderCall(w.kind, call.entry, call.request))]

\* The call at its invocation, before anything is awaited.  Beside the program's
\* state a call keeps what the outside did to it: cause (how its scan request ended:
\* "http", "body", "network", "timeout"), status, body and the provider's settlement.
Invoked(entry, request) ==
  [ pc |-> "invoked", entry |-> entry, request |-> request, timer |-> "none",
    aborted |-> FALSE, fetches |-> 0, provided |-> <<>> ]

\* new AbortController, setTimeout, fetch(`${endpoint}${path}`, {headers, body, signal}).
\* delay is the delay the timer is armed with.
Fetching(w, call, path, body) ==
  Put(Put([call EXCEPT !.pc = "fetch", !.timer = "armed", !.fetches = @ + 1],
          "delay", w.timeout),
      "posted",
      [ url |-> w.endpoint \o path,
        authorization |-> "Bearer " \o ToStr(w.apiKey),
        body |-> body ])

\* The entry point with the provider invoked before the scan is awaited.
StartGenerationForwardsFirst(w, entry, request) ==
  LET text == ExtractedText(w.kind, request)
      call == Put(Invoked(entry, request), "text", text)
      early == [call EXCEPT !.provided = Append(@, ProviderCall(w.kind, entry, request))]
  IN IF trim(text) = ""
     THEN Settle(w, call, Ok(EmptyContentVerdict(w.kind)))
     ELSE Fetching(w, early, "/scan", text)

\* The entry point with `!userContent` for `!userContent.trim()`.
StartGenerationNoTrim(w, entry, request) ==
  LET text == ExtractedText(w.kind, request)
      call == Put(Invoked(entry, request), "text", text)
  IN IF text = ""
     THEN Settle(w, call, Ok(EmptyContentVerdict(w.kind)))
     ELSE Fetching(w, call, "/scan", text)

\* A generation entry point up to its first await that waits on the network.
StartGeneration(w, entry, request) ==
  LET text == ExtractedText(w.kind, request)
      call == Put(Invoked(entry, request), "text", text)
  IN IF trim(text) = ""
     THEN Settle(w, call, Ok(EmptyContentVerdict(w.kind)))
     ELSE Fetching(w, call, "/scan", text)

\* ScanClient's guard with `>=` for `>`: input of exactly the limit is refused.
StartScanInclusive(w, entry, args) ==
  LET call == Invoked(entry, args)
      url == IF entry = "scan" THEN "/scan" ELSE "/api/scan/specialized"
  IN IF w.kind = "scanclient" /\ ClientSize(entry, args) >= MAX_CONTENT_SIZE
     THEN Settle(w, call, Ok(SizeLimitVerdict(entry, args)))
     ELSE Fetching(w, call, url, "")

\* A scan operation up to its first await.
StartScan(w, entry, args) ==
  LET call == Invoked(entry, args)
      url == IF entry = "scan" THEN "/scan" ELSE "/api/scan/specialized"
  IN IF w.kind = "scanclient" /\ ClientSize(entry, args) > MAX_CONTENT_SIZE
     THEN Settle(w, call, Ok(SizeLimitVerdict(entry, args)))
     ELSE Fetching(w, call, url, "")

InFlight(call) == call.pc \in {"fetch", "json"}

(***************************************************************************)
(* Actions                                                                 *)
(***************************************************************************)
SanIdle == /\ sanRaw = NullBody
           /\ sanOut = [ran |-> FALSE]

\* The caller invokes a generation entry point.
Generate(c) ==
  /\ calls[c].pc = "idle"
  /\ \E entry \in GenerationEntries(wrapper.kind) :
       \E i \in 1..Len(Requests(wrapper.kind, entry)) :
         calls' = [calls EXCEPT
                     ![c] = StartGeneration(wrapper, entry, Requests(wrapper.kind, entry)[i])]
  /\ UNCHANGED <<wrapper, sanRaw, sanOut>>

\* The caller invokes scan, scanSql or scanFile.
Scan(c) ==
  /\ calls[c].pc = "idle"
  /\ \E entry \in ScanEntries(wrapper.kind) :
       \E i \in 1..Len(Requests(wrapper.kind, entry)) :
         calls' = [calls EXCEPT
                     ![c] = StartScan(wrapper, entry, Requests(wrapper.kind, entry)[i])]
  /\ UNCHANGED <<wrapper, sanRaw, sanOut>>

\* The scan service answers: fetch resolves with a response.  A 2xx answer leaves the
\* call awaiting response.json(); any other is settled at once.
FetchResponds(c) ==
  /\ calls[c].pc = "fetch"
  /\ ~calls[c].aborted
  /\ ValidUrl(wrapper.endpoint)
  /\ \E status \in Statuses :
       calls' = [calls EXCEPT ![c] =
                   IF ResponseOk(status) THEN [@ EXCEPT !.pc = "json"]
                   ELSE Settle(wrapper, Put(Put(@, "cause", "http"), "status", status),
                               OnNotOk(wrapper, @.entry, status))]
  /\ UNCHANGED <<wrapper, sanRaw, sanOut>>

\* response.json() settles: the body is parsed and sanitized.
JsonSettles(c) ==
  /\ calls[c].pc = "json"
  /\ ~calls[c].aborted
  /\ \E i \in 1..Len(Bodies) :
       calls' = [calls EXCEPT ![c] =
                   Settle(wrapper, Put(Put(@, "cause", "body"), "body", Bodies[i]),
                          OnBody(wrapper, @.entry, Bodies[i]))]
  /\ UNCHANGED <<wrapper, sanRaw, sanOut>>

\* The transport fails: fetch (or the body read) rejects.
FetchRejects(c) ==
  /\ InFlight(calls[c])
  /\ ~calls[c].aborted
  /\ \E error \in FetchErrors(wrapper) :
       calls' = [calls EXCEPT ![c] =
                   Settle(wrapper, Put(@, "cause", "network"),
                          OnError(wrapper, @.entry, error))]
  /\ UNCHANGED <<wrapper, sanRaw, sanOut>>

\* One AbortController for the instance: a timer that fires aborts every pending request.
TimerFiresShared(c) ==
  /\ calls[c].pc # "idle"
  /\ calls[c].timer = "armed"
  /\ ValidUrl(wrapper.endpoint)
  /\ calls' = [d \in CallIds |->
                 IF d = c THEN [calls[d] EXCEPT !.timer = "fired", !.aborted = TRUE]
                 ELSE IF calls[d].pc # "idle" /\ calls[d].timer = "armed"
                 THEN [calls[d] EXCEPT !.aborted = TRUE]
                 ELSE calls[d]]
  /\ UNCHANGED <<wrapper, sanRaw, sanOut>>

\* The timer firing without aborting the request: the callback does nothing.
TimerFiresNoAbort(c) ==
  /\ calls[c].pc # "idle"
  /\ calls[c].timer = "armed"
  /\ ValidUrl(wrapper.endpoint)
  /\ calls' = [calls EXCEPT ![c].timer = "fired"]
  /\ UNCHANGED <<wrapper, sanRaw, sanOut>>

\* The call's timer fires: controller.abort().  A URL that does not parse makes fetch
\* reject before any timer can run.
TimerFires(c) ==
  /\ calls[c].pc # "idle"
  /\ calls[c].timer = "armed"
  /\ ValidUrl(wrapper.endpoint)
  /\ calls' = [calls EXCEPT ![c].timer = "fired", ![c].aborted = TRUE]
  /\ UNCHANGED <<wrapper, sanRaw, sanOut>>

\* The aborted request rejecting with the instance backing off: every timeout doubles
\* the instance's scan timeout.
AbortRejectsBacksOff(c) ==
  /\ InFlight(calls[c])
  /\ calls[c].aborted
  /\ calls' = [calls EXCEPT ![c] =
                Settle(wrapper, Put(@, "cause", "timeout"),
                       OnError(wrapper, @.entry, AbortError))]
  /\ wrapper' = [wrapper EXCEPT !.timeout = Num(2 * @.n)]
  /\ UNCHANGED <<sanRaw, sanOut>>

\* The aborted request rejects with an AbortError.
AbortRejects(c) ==
  /\ InFlight(calls[c])
  /\ calls[c].aborted
  /\ calls' = [calls EXCEPT ![c] =
                Settle(wrapper, Put(@, "cause", "timeout"),
                       OnError(wrapper, @.entry, AbortError))]
  /\ UNCHANGED <<wrapper, sanRaw, sanOut>>

\* The wrapped provider settles; the call settles with the same value or error.
ProviderSettles(c) ==
  /\ calls[c].pc = "provider"
  /\ \E s \in ProviderSettlements :
       calls' = [calls EXCEPT ![c] =
                   IF s.ok
                   THEN Put(Put([@ EXCEPT !.pc = "done"], "settlement", s),
                            "returned", s.value)
                   ELSE Put(Put([@ EXCEPT !.pc = "done"], "settlement", s),
                            "raised", Throw("ProviderError", s.value))]
  /\ UNCHANGED <<wrapper, sanRaw, sanOut>>

Init ==
  /\ \E kind \in Kinds, options \in ConstructorOptions :
       wrapper = NewInstance(kind, options)
  /\ calls = [c \in CallIds |-> Idle]
  /\ SanIdle

Next ==
  \E c \in CallIds :
    \/ Generate(c)
    \/ Scan(c)
    \/ FetchResponds(c)
    \/ JsonSettles(c)
    \/ FetchRejects(c)
    \/ TimerFires(c)
    \/ AbortRejects(c)
    \/ ProviderSettles(c)

Spec == Init /\ [][Next]_vars

\* One call followed under the scheduling the runtime gives it, with a scan service
\* that may never answer: an armed timer fires after its delay, an aborted request
\* rejects, and a request to a URL that does not parse rejects at once.  Nothing
\* obliges the service to respond or the provider to settle.
FairCalls == {1}

FairNext ==
  \E c \in FairCalls :
    \/ Generate(c)
    \/ Scan(c)
    \/ FetchResponds(c)
    \/ JsonSettles(c)
    \/ FetchRejects(c)
    \/ TimerFires(c)
    \/ AbortRejects(c)
    \/ ProviderSettles(c)

FairSpec ==
  /\ Init
  /\ [][FairNext]_vars
  /\ \A c \in FairCalls :
       /\ WF_vars(TimerFires(c))
       /\ WF_vars(AbortRejects(c))
       /\ WF_vars(FetchRejects(c) /\ ~ValidUrl(wrapper.endpoint))

(***************************************************************************)
(* The sanitizer on its own: every payload of RawVerdicts, sanitized once  *)
(***************************************************************************)
RawSafes == {Bool(FALSE), Bool(TRUE), Undefined, Null, Str("false")}
RawReasons == {Undefined, Str(""), Str("SQL injection detected")}
RawThreatTypes ==
  {Str(k) : k \in DOMAIN THREAT_TYPE_MAP}
  \cup {Str(x) : x \in {"SQL-Injection", "Tautology_OR", "PII", "data-exfiltration",
                        "Prompt Injection", "made_up_label", "", "unknown",
                        "constructor", "--proto--", "toString", "valueOf"}}
  \cup {Undefined, Null, Num(4200), Num(0), Bool(TRUE), Obj("[object Object]")}
RawConfidences ==
  {Undefined, Null, Num(100), Num(97), Num(90), Num(89), Num(70), Num(69), Num(0),
   Str("0.95")}
RawSeverities ==
  {Undefined, Str("CRITICAL"), Str("High"), Str("low"), Str("severe"), Str(""), Num(300)}

RawVerdicts ==
  { RawBody(safe, reason, threatType, confidence, severity, <<>>, {}) :
      safe \in RawSafes, reason \in RawReasons, threatType \in RawThreatTypes,
      confidence \in RawConfidences, severity \in RawSeverities }
  \cup {NullBody, Bodies[1], Bodies[2], Bodies[5]}

NoInstance == [kind |-> "none"]

Sanitize ==
  /\ wrapper = NoInstance
  /\ ~sanOut.ran
  /\ sanOut' = [ran |-> TRUE, out |-> sanitizeScanResponse(sanRaw)]
  /\ UNCHANGED <<wrapper, calls, sanRaw>>

SanitizerInit ==
  /\ wrapper = NoInstance
  /\ calls = [c \in CallIds |-> Idle]
  /\ sanRaw \in RawVerdicts
  /\ sanOut = [ran |-> FALSE]

SanitizerSpec == SanitizerInit /\ [][Sanitize]_vars

\* The calls and the sanitizer side by side.
WholeSpec == (Init \/ SanitizerInit) /\ [][Next \/ Sanitize]_vars

(***************************************************************************)
(* Properties                                                              *)
(***************************************************************************)
Active(c) == calls[c].pc # "idle"
IsGeneration(c) == Active(c) /\ calls[c].entry \in GenerationEntries(wrapper.kind)
\* The call's scan step has returned a verdict.
HasVerdict(c) == Active(c) /\ "scan" \in DOMAIN calls[c] /\ ~calls[c].scan.thrown
Raised(c, name) ==
  /\ calls[c].pc = "done"
  /\ "raised" \in DOMAIN calls[c]
  /\ calls[c].raised.name = name
\* The call's scan request ended in one of the three infrastructure failures.
ScanFailed(c) ==
  /\ Active(c)
  /\ "cause" \in DOMAIN calls[c]
  /\ calls[c].cause \in {"timeout", "network", "http"}
Forwarded(c) == Active(c) /\ calls[c].pc \in {"provider", "done"} /\ Len(calls[c].provided) = 1

\* C1: in every generation entry point, a call whose scan verdict has safe=false has
\* ended by raising ShrikeBlockedError and has never invoked the wrapped provider.
C1_UnsafeVerdictBlocks ==
  \A c \in CallIds :
    (IsGeneration(c) /\ HasVerdict(c) /\ ~calls[c].scan.val.safe)
      => (Raised(c, "ShrikeBlockedError") /\ calls[c].provided = <<>>)

\* Two calls blocked on an unsafe verdict, one of them a streaming chat send.
C1_Witness ==
  \E c, d \in CallIds :
    /\ c # d
    /\ IsGeneration(c) /\ HasVerdict(c) /\ ~calls[c].scan.val.safe
    /\ Raised(c, "ShrikeBlockedError")
    /\ calls[c].entry = "sendMessageStream"
    /\ IsGeneration(d) /\ HasVerdict(d) /\ ~calls[d].scan.val.safe
    /\ calls[d].entry = "generateContent"

\* C2: under fail mode closed, a generation call whose scan request timed out, failed
\* in the transport or was answered non-2xx has raised ShrikeScanError, holds no
\* verdict and has never invoked the wrapped provider.
C2_FailClosedRaises ==
  \A c \in CallIds :
    (IsGeneration(c) /\ wrapper.failMode = Str(CLOSED) /\ ScanFailed(c))
      => /\ calls[c].scan.thrown
         /\ Raised(c, "ShrikeScanError")
         /\ calls[c].provided = <<>>

\* Under fail-closed, one call timed out and another was answered non-2xx.
C2_Witness ==
  \E c, d \in CallIds :
    /\ IsGeneration(c) /\ IsGeneration(d)
    /\ wrapper.failMode = Str(CLOSED)
    /\ ScanFailed(c) /\ calls[c].cause = "timeout" /\ Raised(c, "ShrikeScanError")
    /\ ScanFailed(d) /\ calls[d].cause = "http" /\ Raised(d, "ShrikeScanError")

\* C3: under fail mode open, a generation call whose scan request failed holds a
\* verdict with safe=true and a reason that is not empty, contains "timeout" after a
\* timeout and the status code after a non-2xx answer, and the call was forwarded.
C3_FailOpenForwards ==
  \A c \in CallIds :
    (IsGeneration(c) /\ FailOpen(wrapper) /\ ScanFailed(c))
      => /\ HasVerdict(c)
         /\ calls[c].scan.val.safe
         /\ calls[c].scan.val.reason.t = "string"
         /\ calls[c].scan.val.reason.s # ""
         /\ (calls[c].cause = "timeout" => includes(calls[c].scan.val.reason.s, "timeout"))
         /\ (calls[c].cause = "http"
               => includes(calls[c].scan.val.reason.s, ToString(calls[c].status)))
         /\ Forwarded(c)

\* Under fail-open, one call timed out and another was answered 500; both forwarded.
C3_Witness ==
  \E c, d \in CallIds :
    /\ IsGeneration(c) /\ IsGeneration(d)
    /\ FailOpen(wrapper)
    /\ ScanFailed(c) /\ calls[c].cause = "timeout" /\ Forwarded(c)
    /\ ScanFailed(d) /\ calls[d].cause = "http" /\ calls[d].status = 500 /\ Forwarded(d)

\* The call's scan request was answered 2xx with a JSON object whose safe is false.
PositiveVerdict(c) ==
  /\ Active(c)
  /\ "body" \in DOMAIN calls[c]
  /\ calls[c].body.kind = "object"
  /\ calls[c].body.safe = Bool(FALSE)

\* C4: a generation call whose scan was answered 2xx with safe === false, whatever
\* the other fields of the body hold, has raised ShrikeBlockedError and was never
\* forwarded, under either fail mode.
C4_PositiveVerdictAlwaysBlocks ==
  \A c \in CallIds :
    (IsGeneration(c) /\ PositiveVerdict(c))
      => (Raised(c, "ShrikeBlockedError") /\ calls[c].provided = <<>>)

\* C5: a generation call invokes the wrapped provider at most once, and only once its
\* own scan step has returned a safe verdict: after its one scan request has settled
\* and its timer is no longer armed, or with no request at all for empty text.
C5_ProviderOnceAfterScan ==
  \A c \in CallIds :
    IsGeneration(c) =>
      /\ Len(calls[c].provided) <= 1
      /\ calls[c].provided # <<>> =>
           /\ HasVerdict(c)
           /\ calls[c].scan.val.safe
           /\ ~InFlight(calls[c])
           /\ calls[c].timer # "armed"
           /\ \/ calls[c].fetches = 1 /\ trim(calls[c].text) # ""
              \/ calls[c].fetches = 0 /\ trim(calls[c].text) = ""

\* One call forwarded after its scan request was answered, while another call of the
\* same instance is still waiting for its scan.
C5_Witness ==
  \E c, d \in CallIds :
    /\ IsGeneration(c) /\ Len(calls[c].provided) = 1 /\ calls[c].fetches = 1
    /\ "cause" \in DOMAIN calls[c] /\ calls[c].cause = "body"
    /\ IsGeneration(d) /\ InFlight(calls[d]) /\ calls[d].provided = <<>>

\* C6: a generation call whose extracted text is empty or whitespace-only has sent no
\* scan request, holds a verdict with safe=true and was forwarded.
C6_EmptyContentSkipsScan ==
  \A c \in CallIds :
    (IsGeneration(c) /\ trim(calls[c].text) = "")
      => /\ calls[c].fetches = 0
         /\ "posted" \notin DOMAIN calls[c]
         /\ calls[c].timer = "none"
         /\ HasVerdict(c)
         /\ calls[c].scan.val.safe
         /\ Forwarded(c)

\* One call with empty text and one with whitespace-only text, both forwarded unscanned.
C6_Witness ==
  \E c, d \in CallIds :
    /\ IsGeneration(c) /\ calls[c].text = "" /\ Forwarded(c) /\ calls[c].fetches = 0
    /\ IsGeneration(d) /\ calls[d].text # "" /\ trim(calls[d].text) = ""
    /\ Forwarded(d) /\ calls[d].fetches = 0

\* The provider's settlement reaches the caller as it is.
SettlementUnchanged(c) ==
  (calls[c].pc = "done" /\ "settlement" \in DOMAIN calls[c])
    => IF calls[c].settlement.ok
       THEN "returned" \in DOMAIN calls[c] /\ "raised" \notin DOMAIN calls[c]
            /\ calls[c].returned = calls[c].settlement.value
       ELSE "raised" \in DOMAIN calls[c] /\ "returned" \notin DOMAIN calls[c]
            /\ calls[c].raised.message = calls[c].settlement.value

ConfidenceBuckets == {Str("high"), Str("medium"), Str("low")}

\* C8: every verdict with safe=false that a scan operation returns has a confidence
\* that is one of high, medium, low.
C8_UnsafeConfidenceBucketed ==
  \A c \in CallIds :
    (HasVerdict(c) /\ ~calls[c].scan.val.safe)
      => Field(calls[c].scan.val, "confidence") \in ConfidenceBuckets

ClassificationKeys == {"threat_type", "severity", "guidance"}

\* C9: a verdict with safe=true, from the sanitizer, the empty-content shortcut or a
\* fail-open conversion, has no threat_type, severity or guidance key.
C9_SafeVerdictBare ==
  /\ \A c \in CallIds :
       (HasVerdict(c) /\ calls[c].scan.val.safe)
         => DOMAIN calls[c].scan.val \cap ClassificationKeys = {}
  /\ (sanOut.ran /\ ~sanOut.out.thrown /\ sanOut.out.val.safe)
       => DOMAIN sanOut.out.val \cap ClassificationKeys = {}

\* The sanitizer made a safe verdict of a payload that names a threat type and a severity.
C9_Witness ==
  /\ sanOut.ran /\ ~sanOut.out.thrown /\ sanOut.out.val.safe
  /\ sanRaw.threat_type = Str("jailbreak")
  /\ sanRaw.severity = Str("CRITICAL")

PublicThreatTypes ==
  {THREAT_TYPE_MAP[k] : k \in DOMAIN THREAT_TYPE_MAP} \cup {"unknown"}

\* C10: for an unsafe payload whose threat_type is a string or absent, the sanitized
\* threat_type is the table entry of its lower-cased, hyphen-to-underscore form when
\* that form is a key of the table and "unknown" otherwise: a public threat type.
C10_ThreatTypeFromTable ==
  ( /\ sanOut.ran
    /\ sanRaw.kind = "object"
    /\ sanRaw.safe = Bool(FALSE)
    /\ sanRaw.threat_type.t \in {"string", "undefined"} )
    => LET key == replaceHyphens(toLowerCase(sanRaw.threat_type.s))
       IN /\ ~sanOut.out.thrown
          /\ sanOut.out.val.threat_type =
               Str(IF key \in DOMAIN THREAT_TYPE_MAP THEN THREAT_TYPE_MAP[key] ELSE "unknown")
          /\ sanOut.out.val.threat_type.t = "string"
          /\ sanOut.out.val.threat_type.s \in PublicThreatTypes

\* What a backend verdict may carry beside the five fields the sanitizer reads.
ViolationLists == {<<>>, <<"v1", "v2">>, <<"ssn">>}
InternalFieldSets ==
  {{}, {"detected_by", "matched_pattern"}, {"policy_id", "scan_stage", "ai_reasoning"}}
VerdictKeys == {"safe", "reason", "threat_type", "severity", "confidence", "guidance"}

\* C11: the sanitized verdict is the same for every payload that agrees with the one
\* sanitized on safe, reason, threat_type, confidence and severity, whatever its
\* violations and internal fields; it has no key outside safe, reason, threat_type,
\* severity, confidence, guidance, and only safe and reason when safe; the
\* ShrikeBlockedError a wrapper raises has an empty violations list.
C11_SanitizerBoundary ==
  /\ (sanOut.ran /\ sanRaw.kind = "object") =>
       /\ \A v \in ViolationLists, i \in InternalFieldSets :
            sanitizeScanResponse([sanRaw EXCEPT !.violations = v, !.internal = i])
              = sanOut.out
       /\ ~sanOut.out.thrown =>
            /\ DOMAIN sanOut.out.val \subseteq VerdictKeys
            /\ sanOut.out.val.safe => DOMAIN sanOut.out.val = {"safe", "reason"}
  /\ \A c \in CallIds :
       /\ (HasVerdict(c) /\ "body" \in DOMAIN calls[c]) =>
            /\ DOMAIN calls[c].scan.val \subseteq VerdictKeys
            /\ calls[c].scan.val.safe => DOMAIN calls[c].scan.val = {"safe", "reason"}
       /\ (IsGeneration(c) /\ Raised(c, "ShrikeBlockedError")) =>
            /\ calls[c].raised.violations = <<>>
            /\ calls[c].raised.details.violations = <<>>

\* The sanitizer made an unsafe verdict of a payload that carries violations and
\* internal fields.
C11_Witness ==
  /\ sanOut.ran /\ ~sanOut.out.thrown /\ ~sanOut.out.val.safe
  /\ sanRaw.violations = <<"v1", "v2">>
  /\ "matched_pattern" \in sanRaw.internal

\* The call's scan request was answered with an unsafe verdict that lists violations,
\* and the scan step has made a verdict of it.
UnsafeWithViolations(c) ==
  /\ PositiveVerdict(c)
  /\ calls[c].body.violations # <<>>
  /\ HasVerdict(c)
  /\ ~calls[c].scan.val.safe

\* C12 as stated: the verdict made of an unsafe backend verdict that lists violations,
\* and the blocking error raised for it, carry that list in the same order.
C12_ViolationsPassThrough ==
  \A c \in CallIds :
    UnsafeWithViolations(c) =>
      /\ "violations" \in DOMAIN calls[c].scan.val
      /\ calls[c].scan.val.violations = calls[c].body.violations
      /\ IsGeneration(c) =>
           /\ Raised(c, "ShrikeBlockedError")
           /\ calls[c].raised.violations = calls[c].body.violations

\* C12 amended: the verdict made of an unsafe backend verdict that lists violations
\* has no violations field, and the blocking error raised for it carries the verdict's
\* threat type and confidence bucket and an empty violations list.
C12_ViolationsStripped ==
  \A c \in CallIds :
    UnsafeWithViolations(c) =>
      /\ "violations" \notin DOMAIN calls[c].scan.val
      /\ IsGeneration(c) =>
           /\ Raised(c, "ShrikeBlockedError")
           /\ calls[c].raised.violations = <<>>
           /\ calls[c].raised.details.violations = <<>>
           /\ calls[c].raised.threatType = calls[c].scan.val.threat_type
           /\ calls[c].raised.confidence = calls[c].scan.val.confidence

\* A generation call blocked on a backend verdict that lists two violations, and a
\* scan operation that returned a verdict for the same backend answer.
C12_Witness ==
  \E c, d \in CallIds :
    /\ UnsafeWithViolations(c) /\ IsGeneration(c) /\ Raised(c, "ShrikeBlockedError")
    /\ calls[c].body.violations = <<"v1", "v2">>
    /\ UnsafeWithViolations(d) /\ ~IsGeneration(d) /\ "verdict" \in DOMAIN calls[d]

\* The size a scan operation measures of its arguments: prompt plus context, the
\* query alone, path plus content.
MeasuredSize(c) ==
  IF calls[c].entry = "scanSql" THEN calls[c].request.first
  ELSE calls[c].request.first + calls[c].request.second

IsScanOperation(c) == Active(c) /\ calls[c].entry \in ScanEntries(wrapper.kind)

SizeLimitExceeded(c) ==
  /\ HasVerdict(c)
  /\ ~calls[c].scan.val.safe
  /\ Field(calls[c].scan.val, "threat_type") = Str("size_limit_exceeded")

\* C13: a ScanClient operation whose measured size is above 100*1024 has sent no
\* request and returned a verdict with safe=false and threat_type size_limit_exceeded;
\* one whose size is at most 100*1024 has sent its request.
C13_ScanClientSizeGuard ==
  \A c \in CallIds :
    (wrapper.kind = "scanclient" /\ IsScanOperation(c)) =>
      IF MeasuredSize(c) > 100 * 1024
      THEN /\ calls[c].fetches = 0
           /\ "posted" \notin DOMAIN calls[c]
           /\ calls[c].pc = "done"
           /\ SizeLimitExceeded(c)
           /\ "verdict" \in DOMAIN calls[c]
      ELSE /\ calls[c].fetches = 1
           /\ "posted" \in DOMAIN calls[c]

\* ScanClient.scan of exactly 100 KiB was sent, and one character more was refused.
C13_Witness ==
  \E c, d \in CallIds :
    /\ wrapper.kind = "scanclient"
    /\ IsScanOperation(c) /\ calls[c].entry = "scan"
    /\ MeasuredSize(c) = 100 * 1024 /\ calls[c].fetches = 1
    /\ IsScanOperation(d) /\ calls[d].entry = "scan"
    /\ MeasuredSize(d) = 100 * 1024 + 1 /\ SizeLimitExceeded(d)

\* The size of what a call would post: the extracted text of a generation call, the
\* measured arguments of a scan operation.
PostedSize(c) == IF IsScanOperation(c) THEN MeasuredSize(c) ELSE Len(calls[c].text)

\* C14: on every path that posts to a scan endpoint, the wrappers' pre-flight scan
\* and ShrikeOpenAI.scanSql/scanFile included, input above 100*1024 is never sent and
\* yields a local verdict with safe=false and threat_type size_limit_exceeded.
C14_SizeGuardEverywhere ==
  \A c \in CallIds :
    (Active(c) /\ PostedSize(c) > 100 * 1024) =>
      /\ calls[c].fetches = 0
      /\ "posted" \notin DOMAIN calls[c]
      /\ SizeLimitExceeded(c)

IsChatCall(c) == IsGeneration(c) /\ wrapper.kind \in {"openai", "anthropic"}

\* The text spans of one entry: its string content, or the texts of its text blocks.
TextSpans(msg) ==
  IF msg.content.kind = "string"
  THEN IF msg.content.text = "" THEN <<>> ELSE <<msg.content.text>>
  ELSE LET blocks == SelectSeq(msg.content.blocks,
                               LAMBDA b : b.type = "text" /\ b.text # "")
       IN [i \in 1..Len(blocks) |-> blocks[i].text]

UserEntries(messages) == SelectSeq(messages, LAMBDA m : m.role = "user")

\* C15: the text the OpenAI and Anthropic extractors make of a message list is the
\* newline-joined text spans of its user entries in list order; it is the text of the
\* list with every entry of another role removed.
C15_UserSpansInOrder ==
  \A c \in CallIds :
    IsChatCall(c) =>
      LET messages == calls[c].request.messages
          users == UserEntries(messages)
      IN /\ calls[c].text = join(Flatten([i \in 1..Len(users) |-> TextSpans(users[i])]))
         /\ calls[c].text
              = ExtractedText(wrapper.kind, [calls[c].request EXCEPT !.messages = users])

\* A list with system, user, assistant, user entries gave the two user texts, and a
\* list with assistant and tool entries alone gave nothing.
C15_Witness ==
  \E c, d \in CallIds :
    /\ IsChatCall(c) /\ Len(calls[c].request.messages) = 4 /\ calls[c].text = "A\nC"
    /\ IsChatCall(d) /\ UserEntries(calls[d].request.messages) = <<>>
    /\ calls[d].request.messages # <<>> /\ calls[d].text = ""

\* C16: a user entry whose content is a list of typed blocks contributes the texts of
\* its text blocks with non-empty text, in block order; blocks of another type are
\* skipped and the extraction raises nothing.
C16_TextBlocksOnly ==
  \A c \in CallIds :
    IsChatCall(c) =>
      \A i \in 1..Len(calls[c].request.messages) :
        LET msg == calls[c].request.messages[i]
            kept == SelectSeq(msg.content.blocks,
                              LAMBDA b : b.type = "text" /\ b.text # "")
        IN (msg.role = "user" /\ msg.content.kind = "array") =>
             /\ ExtractedText(wrapper.kind, [calls[c].request EXCEPT !.messages = <<msg>>])
                  = join([k \in 1..Len(kept) |-> kept[k].text])
             /\ \A k \in 1..Len(kept) : includes(calls[c].text, kept[k].text)
             /\ \A k \in 1..Len(msg.content.blocks) :
                  (msg.content.blocks[k].type # "text" /\ msg.content.blocks[k].text # "")
                    => ~includes(calls[c].text, msg.content.blocks[k].text)
             /\ "text" \in DOMAIN calls[c]

\* A user entry with an image, two text blocks, an empty text block and a document
\* block gave the two texts.
C16_Witness ==
  \E c \in CallIds :
    /\ IsChatCall(c) /\ wrapper.kind = "anthropic"
    /\ \E i \in 1..Len(calls[c].request.messages) :
         /\ calls[c].request.messages[i].content.kind = "array"
         /\ \E k \in 1..Len(calls[c].request.messages[i].content.blocks) :
              calls[c].request.messages[i].content.blocks[k].type = "document"
    /\ calls[c].text = "look\nhere"

\* The call's input holds no matching text: a message list whose user entries have no
\* text span, a Gemini part list without text, or a Gemini object with no text of its
\* own and no part with text.
NoMatchingContent(c) ==
  IF wrapper.kind = "gemini"
  THEN LET contents == calls[c].request
           noPartText == \A i \in 1..Len(contents.parts) : ~Truthy(contents.parts[i].text)
       IN \/ contents.kind = "array" /\ noPartText
          \/ contents.kind = "object" /\ ~Truthy(contents.text) /\ noPartText
  ELSE \A i \in 1..Len(calls[c].request.messages) :
         calls[c].request.messages[i].role = "user"
           => TextSpans(calls[c].request.messages[i]) = <<>>

\* C17: a generation call whose input holds no matching text content has the empty
\* string as its extracted text.
C17_NoContentIsEmptyString ==
  \A c \in CallIds :
    (IsGeneration(c) /\ NoMatchingContent(c)) => calls[c].text = ""

\* The text of a part list: its strings and the texts of its parts, newline-joined.
PartsText(parts) ==
  LET kept == SelectSeq(parts, LAMBDA p : p.kind = "string" \/ Truthy(p.text))
  IN join([i \in 1..Len(kept) |-> kept[i].text.s])

\* C18: for a Gemini object that exposes a parts list the extracted text is that of the
\* parts, also when the object has a text of its own; the object's text is the
\* extracted text only when there is no parts list.
C18_PartsBeforeText ==
  \A c \in CallIds :
    (IsGeneration(c) /\ wrapper.kind = "gemini" /\ calls[c].request.kind = "object") =>
      IF calls[c].request.hasParts
      THEN calls[c].text = PartsText(calls[c].request.parts)
      ELSE Truthy(calls[c].request.text) => calls[c].text = calls[c].request.text.s

\* C19: a generation call whose extracted text is not blank has issued exactly one
\* scan request; once that request has timed out, failed in the transport or been
\* answered non-2xx the call is past its scan, with the fail policy's outcome, and
\* has still issued one request.
C19_NoRetry ==
  \A c \in CallIds :
    (IsGeneration(c) /\ trim(calls[c].text) # "") =>
      /\ calls[c].fetches = 1
      /\ ScanFailed(c) =>
           /\ ~InFlight(calls[c])
           /\ calls[c].timer # "armed"
           /\ "scan" \in DOMAIN calls[c]
           /\ IF FailOpen(wrapper)
              THEN ~calls[c].scan.thrown /\ calls[c].scan.val.safe
              ELSE calls[c].scan.thrown /\ calls[c].pc = "done"

\* On one instance a call's request failed in the transport and another's timed out;
\* each has issued one request and is past its scan.
C19_Witness ==
  \E c, d \in CallIds :
    /\ IsGeneration(c) /\ ScanFailed(c) /\ calls[c].cause = "network"
    /\ calls[c].fetches = 1 /\ ~InFlight(calls[c])
    /\ IsGeneration(d) /\ ScanFailed(d) /\ calls[d].cause = "timeout"
    /\ calls[d].fetches = 1 /\ calls[d].pc = "done"

\* What the call's scan step must have settled with, given how its own request ended.
OwnScanResults(c) ==
  IF "cause" \notin DOMAIN calls[c]
  THEN {Ok(EmptyContentVerdict(wrapper.kind))}
  ELSE CASE calls[c].cause = "timeout" -> {OnError(wrapper, calls[c].entry, AbortError)}
         [] calls[c].cause = "network" ->
              {OnError(wrapper, calls[c].entry, e) : e \in FetchErrors(wrapper)}
         [] calls[c].cause = "http" -> {OnNotOk(wrapper, calls[c].entry, calls[c].status)}
         [] calls[c].cause = "body" -> {OnBody(wrapper, calls[c].entry, calls[c].body)}

\* The call's outcome follows from its own scan result.
OwnOutcome(c) ==
  "scan" \in DOMAIN calls[c] =>
    /\ calls[c].scan \in OwnScanResults(c)
    /\ IF calls[c].scan.thrown
       THEN Raised(c, calls[c].scan.name) /\ calls[c].provided = <<>>
       ELSE IF calls[c].scan.val.safe THEN Forwarded(c)
       ELSE Raised(c, "ShrikeBlockedError") /\ calls[c].provided = <<>>

\* A step of call c leaves every other call as it was.
OneCallSteps ==
  \A c \in CallIds :
    calls'[c] # calls[c] =>
      /\ \A d \in CallIds \ {c} : calls'[d] = calls[d]
      /\ wrapper' = wrapper

\* C20: with calls in flight together on one instance, a call's request is aborted
\* only when its own timer has fired, a timer that fires changes no other call, and
\* each generation call's outcome follows from its own scan result and the fail mode.
C20_CallsIsolated ==
  /\ [](\A c \in CallIds :
          IsGeneration(c) =>
            /\ calls[c].aborted <=> calls[c].timer = "fired"
            /\ ("cause" \in DOMAIN calls[c] /\ calls[c].cause = "timeout")
                 => calls[c].aborted
            /\ OwnOutcome(c))
  /\ [][OneCallSteps]_vars

\* One call's timer fired and the call ended on its timeout while another call of the
\* instance, started before that, is still waiting for its answer, not aborted.
C20_Witness ==
  \E c, d \in CallIds :
    /\ IsGeneration(c) /\ calls[c].pc \in {"provider", "done"}
    /\ "cause" \in DOMAIN calls[c] /\ calls[c].cause = "timeout"
    /\ IsGeneration(d) /\ calls[d].pc = "json"
    /\ calls[d].timer = "armed" /\ ~calls[d].aborted

\* C21: no instance exists whose Shrike key is missing or whose endpoint is no URL
\* (its constructor would have raised), so no call ever posts without a key or fails
\* on the endpoint.
C21_ConfigCheckedAtConstruction ==
  wrapper.kind \in Kinds =>
    /\ Truthy(wrapper.apiKey)
    /\ ValidUrl(wrapper.endpoint)
    /\ \A c \in CallIds :
         (Active(c) /\ "posted" \in DOMAIN calls[c]) =>
           /\ calls[c].posted.authorization # "Bearer "
           /\ calls[c].posted.authorization # "Bearer undefined"
           /\ ValidUrl(calls[c].posted.url)

\* The call runs the scan step of a wrapper (not of ScanClient).
IsWrapperScan(c) == Active(c) /\ wrapper.kind \in {"openai", "anthropic", "gemini"}

\* The call's scan request ended in a failure of the scan infrastructure: a timeout, a
\* transport error, a non-2xx answer, or a 2xx answer whose body is not JSON.
InfrastructureFailure(c) ==
  \/ ScanFailed(c)
  \/ /\ Active(c) /\ "body" \in DOMAIN calls[c] /\ calls[c].body.kind = "invalid"

\* C22: a wrapper's scan step has raised ShrikeScanError only under fail mode closed,
\* that is, on an instance whose fail mode is not open; under fail mode open a scan
\* request that ended in an infrastructure failure has given a verdict and raised
\* nothing.
C22_ScanErrorOnlyWhenClosed ==
  \A c \in CallIds :
    (IsWrapperScan(c) /\ "scan" \in DOMAIN calls[c]) =>
      /\ (calls[c].scan.thrown /\ calls[c].scan.name = "ShrikeScanError")
           => ~FailOpen(wrapper)
      /\ (FailOpen(wrapper) /\ InfrastructureFailure(c)) =>
           /\ ~calls[c].scan.thrown
           /\ "safe" \in DOMAIN calls[c].scan.val
           /\ ~("raised" \in DOMAIN calls[c] /\ calls[c].raised.name = "ShrikeScanError")

\* Under fail mode open one call's 2xx answer was not JSON and another's request
\* failed in the transport; both scan steps gave a verdict.
C22_Witness ==
  \E c, d \in CallIds :
    /\ "failMode" \in DOMAIN wrapper /\ FailOpen(wrapper)
    /\ IsWrapperScan(c) /\ "body" \in DOMAIN calls[c] /\ calls[c].body.kind = "invalid"
    /\ HasVerdict(c)
    /\ IsWrapperScan(d) /\ ScanFailed(d) /\ calls[d].cause = "network" /\ HasVerdict(d)

\* The generation call was blocked on a backend verdict.
BlockedOnVerdict(c) ==
  /\ IsGeneration(c)
  /\ PositiveVerdict(c)
  /\ Raised(c, "ShrikeBlockedError")

\* C23: the ShrikeBlockedError of a blocked call carries the sanitized verdict's
\* threat type and confidence, on the error and in its details: tautology_or arrives
\* as sql_injection, PII as pii_exposure, 0.97 as high; the backend's label and its
\* numeric score are not on the error.
C23_BlockedErrorCarriesSanitized ==
  \A c \in CallIds :
    BlockedOnVerdict(c) =>
      LET e == calls[c].raised
          body == calls[c].body
      IN /\ e.threatType = calls[c].scan.val.threat_type
         /\ e.confidence = calls[c].scan.val.confidence
         /\ e.details.threat_type = e.threatType
         /\ e.details.confidence = e.confidence
         /\ body.threat_type = Str("tautology_or") => e.threatType = Str("sql_injection")
         /\ body.threat_type = Str("PII") => e.threatType = Str("pii_exposure")
         /\ body.confidence = Num(97) => e.confidence = Str("high")
         /\ e.confidence \in ConfidenceBuckets
         /\ body.confidence.t = "number" => e.confidence # body.confidence
         /\ body.threat_type.s \notin PublicThreatTypes => e.threatType # body.threat_type

\* Two calls blocked, one on {threat_type: tautology_or, confidence: 0.97}, one on
\* {threat_type: PII, confidence: 0.5}.
C23_Witness ==
  \E c, d \in CallIds :
    /\ BlockedOnVerdict(c) /\ calls[c].body.threat_type = Str("tautology_or")
    /\ calls[c].body.confidence = Num(97)
    /\ calls[c].raised.threatType = Str("sql_injection")
    /\ BlockedOnVerdict(d) /\ calls[d].body.threat_type = Str("PII")
    /\ calls[d].raised.confidence = Str("low")

\* The sanitizer has made an unsafe verdict of the payload.
SanitizedUnsafe ==
  /\ sanOut.ran
  /\ ~sanOut.out.thrown
  /\ ~sanOut.out.val.safe

\* C24: the confidence of an unsafe verdict is high for a numeric score of 0.90 or
\* more, medium for a score from 0.70 up to but not including 0.90, low for any lower
\* score, and medium when the payload's confidence is absent or not a number.
C24_ConfidenceBuckets ==
  SanitizedUnsafe =>
    LET score == sanRaw.confidence
    IN sanOut.out.val.confidence =
         IF score.t # "number" THEN Str("medium")
         ELSE IF score.n >= 90 THEN Str("high")
         ELSE IF score.n >= 70 /\ score.n < 90 THEN Str("medium")
         ELSE Str("low")

\* A score of exactly 0.90 was bucketed high.
C24_Witness ==
  /\ SanitizedUnsafe
  /\ sanRaw.confidence = Num(90)
  /\ sanOut.out.val.confidence = Str("high")

\* C25: the severity of an unsafe verdict is the backend's severity in lower case when
\* that is a string equal, letter case aside, to critical, high, medium or low; in
\* every other case it is the THREAT_SEVERITY entry of the verdict's threat type, and
\* medium when the type has no entry.  It is always one of the four.
C25_SeverityCanonical ==
  SanitizedUnsafe =>
    LET given == sanRaw.severity
        type  == sanOut.out.val.threat_type
        severity == sanOut.out.val.severity
    IN /\ severity.t = "string"
       /\ severity.s \in {"critical", "high", "medium", "low"}
       /\ severity.s =
            IF given.t = "string"
               /\ toLowerCase(given.s) \in {"critical", "high", "medium", "low"}
            THEN toLowerCase(given.s)
            ELSE IF type.t = "string" /\ type.s \in DOMAIN THREAT_SEVERITY
                 THEN THREAT_SEVERITY[type.s]
                 ELSE "medium"

\* An unrecognized backend severity was replaced by the default of sql_injection.
C25_Witness ==
  /\ SanitizedUnsafe
  /\ sanRaw.severity = Str("severe")
  /\ sanOut.out.val.threat_type = Str("sql_injection")
  /\ sanOut.out.val.severity = Str("critical")

\* C26: normalizing twice is normalizing once: for a payload whose threat_type is a key
\* of the synonym table, or unknown, the verdict's threat type is a public value that
\* normalizeThreatType maps to itself.
C26_NormalizationIdempotent ==
  ( /\ SanitizedUnsafe
    /\ sanRaw.threat_type.t = "string"
    /\ sanRaw.threat_type.s \in DOMAIN THREAT_TYPE_MAP \cup {"unknown"} )
  => LET once == normalizeThreatType(sanRaw.threat_type)
     IN /\ ~once.thrown
        /\ once.val = sanOut.out.val.threat_type
        /\ once.val.s \in PublicThreatTypes
        /\ normalizeThreatType(once.val) = once

\* A synonym that is not its own public value went through the sanitizer.
C26_Witness ==
  /\ SanitizedUnsafe
  /\ sanRaw.threat_type = Str("sqli")
  /\ sanOut.out.val.threat_type = Str("sql_injection")

\* C27: of every payload object the sanitizer makes a verdict, with safe=false exactly
\* when the payload's safe field is the boolean false.
C27_SafeIffExactlyFalse ==
  (sanOut.ran /\ sanRaw.kind = "object") =>
    /\ ~sanOut.out.thrown
    /\ (sanOut.out.val.safe = FALSE) <=> (sanRaw.safe = Bool(FALSE))

\* C28: in an unsafe verdict guidance is the THREAT_GUIDANCE text of the verdict's
\* threat type, the text of unknown when the type has none; reason is the backend's
\* reason when the payload gives a non-empty one and the guidance text otherwise;
\* neither is absent.
C28_ReasonAndGuidance ==
  SanitizedUnsafe =>
    LET v == sanOut.out.val
        type == v.threat_type
    IN /\ {"reason", "guidance"} \subseteq DOMAIN v
       /\ v.guidance.t = "string"
       /\ v.guidance.s =
            IF type.t = "string" /\ type.s \in DOMAIN THREAT_GUIDANCE
            THEN THREAT_GUIDANCE[type.s]
            ELSE THREAT_GUIDANCE["unknown"]
       /\ v.reason.t # "undefined"
       /\ v.reason =
            IF sanRaw.reason.t \in {"undefined", "null"} \/ sanRaw.reason = Str("")
            THEN v.guidance
            ELSE sanRaw.reason

\* A payload without a reason got the guidance text of its threat type as reason.
C28_Witness ==
  /\ SanitizedUnsafe
  /\ sanRaw.reason = Undefined
  /\ sanOut.out.val.threat_type = Str("jailbreak")
  /\ sanOut.out.val.reason = Str(THREAT_GUIDANCE["jailbreak"])

\* The generation call has its outcome: blocked or scan error (an error raised), or
\* forwarded (the wrapped provider invoked).
Terminal(c) ==
  \/ calls[c].pc = "done" /\ "raised" \in DOMAIN calls[c]
  \/ Forwarded(c)

\* The call's scan request was aborted by its timer and the rejection handled.
TimedOut(c) ==
  /\ IsGeneration(c)
  /\ "cause" \in DOMAIN calls[c]
  /\ calls[c].cause = "timeout"

\* C29: every generation call that has started eventually has its outcome, whether or
\* not the scan service ever answers; and a call whose request its timer aborted
\* went through the timer firing and was settled by the fail mode: a safe verdict and
\* the request forwarded under open, ShrikeScanError under closed.
C29_GenerationTerminates ==
  /\ \A c \in CallIds : IsGeneration(c) ~> Terminal(c)
  /\ [](\A c \in CallIds :
          TimedOut(c) =>
            /\ calls[c].timer = "fired"
            /\ calls[c].aborted
            /\ IF FailOpen(wrapper)
               THEN /\ HasVerdict(c)
                    /\ calls[c].scan.val.safe
                    /\ Forwarded(c)
               ELSE /\ Raised(c, "ShrikeScanError")
                    /\ ~Forwarded(c))

\* A fail-closed call whose scan request timed out ended with ShrikeScanError.
C29_Witness ==
  \E c \in CallIds :
    /\ TimedOut(c)
    /\ ~FailOpen(wrapper)
    /\ Raised(c, "ShrikeScanError")

\* The scan paths of the service.
ScanPaths == {"/scan", "/api/scan/specialized"}

\* The configuration a call that posted a scan request worked with is the instance's.
ObservesConfiguration(c) ==
  /\ \E path \in ScanPaths : calls[c].posted.url = wrapper.endpoint \o path
  /\ calls[c].posted.authorization = "Bearer " \o ToStr(wrapper.apiKey)
  /\ calls[c].delay = wrapper.timeout

\* C30: no step of any call, whatever its outcome, changes the instance: endpoint,
\* API key, timeout and fail mode stay what the constructor made of its options, and
\* every call that posts a scan request, the first or a later one, posts it to that
\* endpoint with that key under a timer of that delay.
C30_ConfigurationImmutable ==
  /\ [][wrapper' = wrapper]_vars
  /\ [](/\ \E kind \in Kinds, options \in ConstructorOptions :
             wrapper = NewInstance(kind, options)
        /\ \A c \in CallIds :
             (Active(c) /\ "posted" \in DOMAIN calls[c]) => ObservesConfiguration(c))

\* A call posted its scan request after an earlier call of the same instance had timed
\* out under fail-closed.
C30_Witness ==
  \E c, d \in CallIds :
    /\ c # d
    /\ Raised(c, "ShrikeScanError")
    /\ calls[c].cause = "timeout"
    /\ calls[d].pc = "fetch"
    /\ calls[d].fetches = 1
    /\ ObservesConfiguration(d)

FailModes == {Str(OPEN), Str(CLOSED)}

\* C31: whatever failMode option the constructor is given, the fail mode it stores is
\* open or closed, open when the option is absent; the instance holds no other value
\* and its calls decide between fail-open and fail-closed by one of these two.
C31_FailModeNormalized ==
  "failMode" \in DOMAIN wrapper =>
    /\ wrapper.failMode \in FailModes
    /\ \A options \in ConstructorOptions :
         (wrapper = NewInstance(wrapper.kind, options) /\ options.failMode = Undefined)
           => FailOpen(wrapper)

\* The call is a scan, scanSql or scanFile of a ScanClient.
IsClientScan(c) == Active(c) /\ wrapper.kind = "scanclient"

\* C32: a ScanClient call whose request timed out, failed in the transport or was
\* answered non-2xx has rejected and holds no verdict, safe or not; after a non-2xx
\* answer the error's message contains the status code.
C32_ScanClientRejects ==
  \A c \in CallIds :
    (IsClientScan(c) /\ ScanFailed(c)) =>
      /\ calls[c].pc = "done"
      /\ calls[c].scan.thrown
      /\ "raised" \in DOMAIN calls[c]
      /\ calls[c].raised = calls[c].scan
      /\ "verdict" \notin DOMAIN calls[c]
      /\ "returned" \notin DOMAIN calls[c]
      /\ calls[c].raised.name # "ShrikeScanError"
      /\ (calls[c].cause = "http"
            => includes(calls[c].raised.message, ToString(calls[c].status)))

\* One ScanClient call was answered 404 and rejected, another timed out and rejected.
C32_Witness ==
  \E c, d \in CallIds :
    /\ IsClientScan(c) /\ ScanFailed(c) /\ calls[c].cause = "http"
    /\ calls[c].status = 404 /\ includes(calls[c].raised.message, "404")
    /\ IsClientScan(d) /\ ScanFailed(d) /\ calls[d].cause = "timeout"
    /\ calls[d].raised.name = "AbortError"

\* The scan step of the call reported a timeout: the fail-open verdict or the
\* ShrikeScanError of the timeout branch.
ReportsTimeout(c) ==
  /\ "scan" \in DOMAIN calls[c]
  /\ IF calls[c].scan.thrown
     THEN /\ calls[c].scan.name = "ShrikeScanError"
          /\ calls[c].scan.message = "Scan request timed out and fail_mode is 'closed'"
     ELSE calls[c].scan.val.reason = Str("Scan timeout, failing open")

\* C33: the scan step of a generation call reports a timeout exactly when the call's
\* own timer fired and aborted its request: a failure before the timer fires is not
\* reported as a timeout, and a fired timer is not reported as a generic scan error.
C33_TimeoutIffTimerFired ==
  \A c \in CallIds :
    (IsGeneration(c) /\ "scan" \in DOMAIN calls[c]) =>
      (ReportsTimeout(c) <=> (calls[c].timer = "fired" /\ calls[c].aborted))

\* The texts an array element holds: itself when a string, its text field, or the
\* texts of its own parts list.
ElementTexts(item) ==
  IF item.kind = "string" \/ Truthy(item.text) THEN <<item.text.s>>
  ELSE IF "parts" \in DOMAIN item
  THEN LET kept == SelectSeq(item.parts, LAMBDA p : p.kind = "string" \/ Truthy(p.text))
       IN [i \in 1..Len(kept) |-> kept[i].text.s]
  ELSE <<>>

\* C34: for a Gemini call given an array, the extracted text is the newline-joined
\* texts of all its elements in order, those held under an element's own parts list
\* included; an array holding text that is not blank has a scan request issued.
C34_ArrayElementsAllExtracted ==
  \A c \in CallIds :
    (IsGeneration(c) /\ wrapper.kind = "gemini" /\ calls[c].request.kind = "array") =>
      LET items == calls[c].request.parts
          texts == Flatten([i \in 1..Len(items) |-> ElementTexts(items[i])])
      IN /\ calls[c].text = join(texts)
         /\ (\E i \in 1..Len(texts) : trim(texts[i]) # "")
              => /\ trim(calls[c].text) # ""
                 /\ calls[c].fetches = 1

\* The call is a sendMessage or sendMessageStream of a Gemini chat session.
IsChatSessionCall(c) ==
  /\ Active(c)
  /\ wrapper.kind = "gemini"
  /\ calls[c].entry \in {"sendMessage", "sendMessageStream"}

\* The calls that have reached the underlying chat session, each with what it sent:
\* only these can have added to the session's history.
SessionReached ==
  { <<c, calls[c].provided>> : c \in {d \in CallIds : IsChatSessionCall(d)
                                                      /\ calls[d].provided # <<>>} }

\* The call ends in this step with ShrikeBlockedError or a scan error.
EndsRefused(c) ==
  /\ calls[c].pc # "done"
  /\ calls'[c].pc = "done"
  /\ "raised" \in DOMAIN calls'[c]
  /\ calls'[c].raised.name \in {"ShrikeBlockedError", "ShrikeScanError"}

\* C35: every chat-session call scans the text extracted from its own content; a call
\* whose scan gave an unsafe verdict or raised has not reached the underlying session,
\* and the step that ends it leaves the set of calls that reached the session as it
\* was; a call whose scan gave a safe verdict is passed on with its own content, also
\* when another call of the session was refused.
C35_ChatSessionCalls ==
  /\ [](\A c \in CallIds :
          IsChatSessionCall(c) =>
            /\ calls[c].text = GeminiExtractContent(calls[c].request)
            /\ "posted" \in DOMAIN calls[c] => calls[c].posted.body = calls[c].text
            /\ ("scan" \in DOMAIN calls[c]
                  /\ (calls[c].scan.thrown \/ ~calls[c].scan.val.safe))
                 => /\ calls[c].provided = <<>>
                    /\ calls[c].pc = "done"
                    /\ "raised" \in DOMAIN calls[c]
            /\ (HasVerdict(c) /\ calls[c].scan.val.safe)
                 => calls[c].provided =
                      <<[method |-> calls[c].entry, arg |-> calls[c].request]>>)
  /\ [][\A c \in CallIds :
          (wrapper.kind = "gemini" /\ EndsRefused(c)) => SessionReached' = SessionReached]_vars

\* One sendMessage was blocked; another call of the session, with the same content,
\* got a safe verdict and reached the underlying session.
C35_Witness ==
  \E c, d \in CallIds :
    /\ IsChatSessionCall(c) /\ calls[c].entry = "sendMessage"
    /\ Raised(c, "ShrikeBlockedError")
    /\ IsChatSessionCall(d) /\ calls[d].request = calls[c].request
    /\ HasVerdict(d) /\ calls[d].scan.val.safe
    /\ calls[d].provided = <<[method |-> calls[d].entry, arg |-> calls[d].request]>>

\* The call's scan request is over: the call is with the provider or has ended.
RequestOver(c) == calls[c].pc \in {"provider", "done"}

\* C36: once a call's scan request is over, however it ended, the timer armed for it
\* is no longer armed: it was cleared, or it had fired while the request was pending;
\* a timer fires, and aborts, only while its request is pending, and a call that sent
\* no request never had a timer.
C36_TimerHygiene ==
  /\ [](\A c \in CallIds :
          /\ RequestOver(c) =>
               /\ calls[c].timer # "armed"
               /\ calls[c].timer = "none" <=> calls[c].fetches = 0
               /\ calls[c].timer = "fired" <=> calls[c].aborted
               /\ calls[c].timer = "fired"
                    => ("cause" \in DOMAIN calls[c] /\ calls[c].cause = "timeout")
          /\ (Active(c) /\ InFlight(calls[c])) => calls[c].timer \in {"armed", "fired"})
  /\ [][\A c \in CallIds :
          (Active(c) /\ calls'[c].aborted /\ ~calls[c].aborted) =>
            /\ InFlight(calls[c])
            /\ calls[c].timer = "armed"
            /\ calls'[c].timer = "fired"]_vars

\* A request answered 2xx with a body and a request that failed in the transport are
\* both over with their timers cleared.
C36_Witness ==
  \E c, d \in CallIds :
    /\ RequestOver(c) /\ "cause" \in DOMAIN calls[c] /\ calls[c].cause = "body"
    /\ calls[c].timer = "cleared"
    /\ RequestOver(d) /\ "cause" \in DOMAIN calls[d] /\ calls[d].cause = "network"
    /\ calls[d].timer = "cleared"
====
